---- MODULE Spec2Model ----
(***************************************************************************)
(* Verification model of MikroScope: the incremental NDJSON indexer, the   *)
(* index store, the ingest pipeline (synchronous and queued) and the       *)
(* alerting manager with its webhook client.                               *)
(*                                                                         *)
(* A file is a sequence of tokens.  Every token occupies one unit of the   *)
(* byte offset; LF is the line feed that readline splits on.               *)
(***************************************************************************)
EXTENDS Integers, Sequences, FiniteSets, TLC

\* ------------------------------------------------------------------------
\* Bounds of the model
\* ------------------------------------------------------------------------
MaxWrites == 3

MaxRequests == 2

MaxFailures == 1

MaxTime == 3

MaxAttempts == 2

MaxCooldown == 2

\* The cycles of the alerting manager the model lets run.
MaxRuns == 2

Requests == 1..MaxRequests

\* ------------------------------------------------------------------------
\* Files and their content
\* ------------------------------------------------------------------------
LF == "LF"
LB == "{"
RB == "}"
CH == "c"
NUL == "null"

\* Producers of POST /api/ingest: the one bound to a bearer token and the
\* basic-auth user.
Producers == {"p1", "admin"}

\* logs/ingest/<producerId>/<UTC-date>.ndjson
ProducerFile == [p \in Producers |->
  IF p = "admin" THEN "ingest/admin/day.ndjson" ELSE "ingest/p1/day.ndjson"]

\* A file written by the application the sidecar runs beside.
OutsideFiles == {"app.ndjson"}

Files == OutsideFiles \cup {ProducerFile[p] : p \in Producers}

\* The listing is sorted by path.
FileOrder == <<"app.ndjson", "ingest/admin/day.ndjson", "ingest/p1/day.ndjson">>

\* What a writer puts into a file with one write call.
Chunks ==
  { <<LB, RB, LF>>, <<LB, CH, RB, LF>>, <<CH, RB, LF>>, <<LF>>,
    <<LB, RB, LF, LB, CH, RB, LF>> }

NoFile == [exists |-> FALSE, data |-> <<>>, mtimeMs |-> 0]

\* ------------------------------------------------------------------------
\* readline: split the bytes read into lines
\* ------------------------------------------------------------------------
RECURSIVE SplitAcc(_, _, _)
SplitAcc(s, cur, acc) ==
  IF s = <<>>
    THEN (IF cur = <<>> THEN acc ELSE Append(acc, cur))
    ELSE IF Head(s) = LF
      THEN SplitAcc(Tail(s), <<>>, Append(acc, cur))
      ELSE SplitAcc(Tail(s), Append(cur, Head(s)), acc)

ReadLines(s) == SplitAcc(s, <<>>, <<>>)

\* What may stand between the braces of an object: a field, or the producerId
\* field with its value.
Content == {CH} \cup Producers

\* JSON.parse of a trimmed line: "blank", "object", "scalar" (a number, a
\* string, an array), "null" or "error".
ParseLine(line) ==
  IF line = <<>> THEN "blank"
  ELSE IF Len(line) >= 2 /\ line[1] = LB /\ line[Len(line)] = RB
          /\ \A i \in 2..(Len(line) - 1) : line[i] \in Content THEN "object"
  ELSE IF \A i \in 1..Len(line) : line[i] = CH THEN "scalar"
  ELSE IF line = <<NUL>> THEN "null"
  ELSE "error"

\* ------------------------------------------------------------------------
\* Index store
\* ------------------------------------------------------------------------
Row(sourceFile, lineNumber, dataJson) ==
  [source_file |-> sourceFile, line_number |-> lineNumber, data_json |-> dataJson]

HasRow(db, sourceFile, lineNumber) ==
  \E r \in db : r.source_file = sourceFile /\ r.line_number = lineNumber

\* An insert that replaces the row already stored for the line.
upsertEntryReplace(db, sourceFile, lineNumber, dataJson) ==
  [db |-> {r \in db : ~(r.source_file = sourceFile /\ r.line_number = lineNumber)}
            \cup {Row(sourceFile, lineNumber, dataJson)},
   inserted |-> TRUE]

\* INSERT OR IGNORE under UNIQUE(source_file, line_number).
upsertEntry(db, sourceFile, lineNumber, dataJson) ==
  IF HasRow(db, sourceFile, lineNumber)
    THEN [db |-> db, inserted |-> FALSE]
    ELSE [db |-> db \cup {Row(sourceFile, lineNumber, dataJson)}, inserted |-> TRUE]

deleteEntriesForSourceFile(db, sourceFile) ==
  {r \in db : r.source_file # sourceFile}

\* ------------------------------------------------------------------------
\* Indexer: reports and line processing
\* ------------------------------------------------------------------------
createReport(mode) ==
  [filesScanned |-> 0, linesScanned |-> 0, recordsInserted |-> 0,
   recordsSkipped |-> 0, parseErrors |-> 0, mode |-> mode]

\* One line: st = [db, report, threw]; the caller has already counted the
\* line.  Reading record.timestamp of null throws a TypeError outside the
\* try block.
processLine(st, sourceFile, lineNumber, line) ==
  LET kind == ParseLine(line) IN
  IF kind = "blank" THEN st
  ELSE IF kind = "error"
    THEN [st EXCEPT !.report.parseErrors = @ + 1]
  ELSE IF kind = "null"
    THEN [st EXCEPT !.threw = TRUE]
  ELSE LET up == upsertEntry(st.db, sourceFile, lineNumber, line) IN
       IF up.inserted
         THEN [st EXCEPT !.db = up.db, !.report.recordsInserted = @ + 1]
         ELSE [st EXCEPT !.report.recordsSkipped = @ + 1]

\* The "for await (const line of reader)" loop of both modes.  The singleton
\* sets bind the state after each line as a value, so that it is computed
\* once per line.  A throw of processLine ends the loop.
RECURSIVE ScanLines(_, _, _, _)
ScanLines(st, sourceFile, lineNumber, lines) ==
  IF lines = <<>> \/ st.threw
    THEN [db |-> st.db, report |-> st.report, lineNumber |-> lineNumber, threw |-> st.threw]
  ELSE CHOOSE out \in
         { ScanLines(next, sourceFile, lineNumber + 1, Tail(lines)) :
             next \in { processLine(counted, sourceFile, lineNumber + 1, Head(lines)) :
                          counted \in {[st EXCEPT !.report.linesScanned = @ + 1]} } } : TRUE

\* ------------------------------------------------------------------------
\* State
\* ------------------------------------------------------------------------
VARIABLES
  fs,                \* the logs tree: file -> [exists, data, mtimeMs]
  clock,             \* number of writes made so far; stamps mtimeMs
  logEntries,        \* table log_entries
  incrementalState,  \* LogIndexer.incrementalState: file -> cursor
  ingest,            \* IngestState
  inc,               \* the incremental pass in flight (runIncrementalIngest)
  full,              \* the full pass in flight (indexDirectory)
  hist,              \* history: what the indexer last read of each file
  fullBase,          \* history: the last completed full pass
  synced,            \* history: an incremental pass completed after the last write
  last,              \* history: the step just taken
  requests,          \* POST /api/ingest requests and their responses
  queue,             \* IngestQueueState and the drain in flight
  failures,          \* number of appendFile calls that have failed
  queueEnabled,      \* ingestQueuePolicy.enabled
  alertNow,          \* Date.now() as the alerting manager reads it
  alertPolicy,       \* AlertingManager.policy
  alertState,        \* AlertingManager.state
  alertCycle,        \* the runCycle in flight
  alertHist,         \* history: deliveries made
  alertConfig,       \* the alert config file, the seed options, what was served
  query,             \* log_entries as queried, the last query and its page
  maintenance,       \* the raw log files as file maintenance finds them
  shutdown,          \* close(): how far it has come
  api,               \* the API credentials configured, the last request and its answer
  intervals,         \* the setInterval timers of server.ts and AlertingManager: armed or not
  audit,             \* a record as the indexer classifies it: its file, its audit field, is_audit
  webhookTest        \* AlertingManager.testWebhook: the manual test in flight

indexVars == <<fs, clock, logEntries, incrementalState, ingest, inc, full,
               hist, fullBase, synced, last>>

ingestVars == <<requests, queue, failures, queueEnabled>>

alertVars == <<alertNow, alertPolicy, alertState, alertCycle, alertHist>>

\* Parts of the server that the claims look at one at a time.
serviceVars == <<alertConfig, query, maintenance, shutdown, api, intervals, audit, webhookTest>>

vars == <<indexVars, ingestVars, alertVars, serviceVars>>

\* Who entered runIncrementalIngest: the auto-ingest interval, the queue's
\* drain, or the handler of a synchronous ingest request.
NoOwner == [kind |-> "none", req |-> 0]

TickOwner == [kind |-> "tick", req |-> 0]

QueueOwner == [kind |-> "queue", req |-> 0]

RequestOwner(r) == [kind |-> "request", req |-> r]

\* The body of a response of POST /api/ingest; status 0: not answered yet.
NoResponse ==
  [status |-> 0, producerId |-> "", accepted |-> 0, rejected |-> 0, queued |-> FALSE]

\* A request: its Authorization header and the logs of its body, what the
\* handler computed from them, and its response.  file and first are history:
\* where the accepted records were appended (first: line number of the first).
NoRequest ==
  [phase |-> "none", authorization |-> [scheme |-> "none", user |-> "", secret |-> ""],
   logs |-> <<>>, producerId |-> "", accepted |-> <<>>, rejected |-> 0,
   file |-> "", first |-> 0, response |-> NoResponse]

IngestResponse(req, status, queued) ==
  [status |-> status, producerId |-> req.producerId, accepted |-> Len(req.accepted),
   rejected |-> req.rejected, queued |-> queued]

\* IngestQueueState, with the drain's position: phase "idle" (no drain),
\* "loop" (at the while test), "write" (in flushIngestQueueBatch, writing
\* merged item i), "index" (about to call runIncrementalIngest), "indexing"
\* (awaiting the pass).  taken: the items spliced off pending.
\* active is history: the calls of drainIngestQueue that are past its guard
\* and have not left through its finally block.
createIngestQueueState ==
  [pending |-> <<>>, pendingRecords |-> 0, recordsQueued |-> 0, recordsFlushed |-> 0,
   draining |-> FALSE, timer |-> FALSE, lastError |-> FALSE,
   phase |-> "idle", taken |-> <<>>, merged |-> <<>>, i |-> 0, active |-> 0]

NoStats == [size |-> 0, mtimeMs |-> 0]

\* Of IngestState the model keeps the in-flight flag and whether the last run
\* failed; the counters of /health are the pass's report (see last.report).
createIngestState == [running |-> FALSE, lastError |-> FALSE]

\* clean, window, pre2, pre3, k3 and r3 are history fields of the pass.
IncIdle ==
  [phase |-> "idle", owner |-> NoOwner, files |-> <<>>, i |-> 0,
   report |-> createReport("incremental"),
   stats |-> NoStats, startOffset |-> 0, lineNumber |-> 0,
   clean |-> TRUE, window |-> FALSE, pre2 |-> FALSE, pre3 |-> TRUE, k3 |-> 0,
   r3 |-> 0]

FullIdle ==
  [phase |-> "idle", kind |-> "none", files |-> <<>>, i |-> 0,
   report |-> createReport("full"), clean |-> TRUE]

NoHist ==
  [seen |-> FALSE, size |-> 0, mtimeMs |-> 0, appended |-> 0, records |-> 0,
   onlyAppends |-> TRUE, raced |-> FALSE]

NoBase == [valid |-> FALSE, db |-> {}]

\* op: the step; file, pre2: the file an incremental pass just read and whether
\* it had shrunk or been rewritten at equal size since the previous read;
\* done, pre3, k3, r3, report: a pass completed, whether every file it read
\* had only had whole lines appended since the previous read, how many lines
\* and how many records among them, and the pass's report; pre4, same:
\* a full pass completed over a tree unchanged since the previous one, and
\* whether it left the table as that one left it; reply: the synchronous
\* ingest request that was just answered 200 (0: none).
NoLast ==
  [op |-> "other", file |-> "", pre2 |-> FALSE, done |-> FALSE, pre3 |-> FALSE,
   k3 |-> 0, r3 |-> 0, report |-> createReport("none"), pre4 |-> FALSE, same |-> FALSE,
   reply |-> 0]

listNdjsonFiles == SelectSeq(FileOrder, LAMBDA f : fs[f].exists)

SeqToSet(s) == {s[j] : j \in 1..Len(s)}

\* Lines of a chunk that end with a line feed.
CountLF(chunk) == Cardinality({j \in 1..Len(chunk) : chunk[j] = LF})

\* Lines of a chunk that parse.
CountRecords(chunk) ==
  LET lines == ReadLines(chunk) IN
  Cardinality({n \in 1..Len(lines) : ParseLine(lines[n]) \in {"object", "scalar"}})

EndsWithLF(s) == s = <<>> \/ s[Len(s)] = LF

MapSet(m, f, v) == [g \in (DOMAIN m) \cup {f} |-> IF g = f THEN v ELSE m[g]]

MapDelete(m, f) == [g \in (DOMAIN m) \ {f} |-> m[g]]

MapKeep(m, keys) == [g \in (DOMAIN m) \cap keys |-> m[g]]

EmptyMap == [g \in {} |-> NoStats]

\* ------------------------------------------------------------------------
\* Alerting: policy, state, the cycle in flight
\* ------------------------------------------------------------------------
Rules == {"error_threshold", "no_logs"}

\* Date.parse of a missing lastTriggerAtByRule entry.
NaN == -1

NumberIsFinite(x) == x # NaN

\* An ISO timestamp is a string that Date.parse turns back into the
\* milliseconds it was made from; NoIso is the missing entry.
NoIso == <<>>

toISOString(ms) == <<"iso", ms>>

DateParse(iso) == iso[2]

\* fetch rejects (network error, timeout, abort): there is no status.
NetworkError == 0

\* What the webhook target may answer.
Statuses == {204, 400, 408, 429, 500}

\* Of the policy the model keeps what the cycle and the sender read.
AlertPolicies ==
  [enabled : BOOLEAN, cooldownMs : 1..MaxCooldown, webhookRetryAttempts : 1..MaxAttempts]

\* The policy seeded with no webhook URL: alerting is off.
createAlertPolicy ==
  [enabled |-> FALSE, cooldownMs |-> MaxCooldown, webhookRetryAttempts |-> MaxAttempts]

createAlertState ==
  [running |-> FALSE, runs |-> 0, sent |-> 0, suppressed |-> 0,
   lastTriggerAtByRule |-> [rule \in Rules |-> NoIso], lastError |-> FALSE]

\* runCycle between two awaits.  phase: "idle"; "inflight" (fetch called, not
\* answered); "wait" (waitMs between two attempts).  policy and nowMs are the
\* cycle's copies; t is the trigger being sent, attempt the loop variable of
\* sendAlertWebhook.  calls is history: the fetch calls of the cycle.
NoCycle ==
  [phase |-> "idle", policy |-> createAlertPolicy, nowMs |-> 0, triggers |-> <<>>,
   t |-> 0, attempt |-> 0, calls |-> 0]

\* History.  okAt: when the last successful delivery of each rule was
\* answered.  sent: the cycle under way, or the one that just ended, has had
\* a delivery of a rule answered successfully, gap after the successful
\* delivery of the same rule before it, under a policy with cooldownMs.
\* statuses, sendCalls, webhookRetryAttempts: the answers and the fetch calls
\* of the latest send and the attempts its policy allowed.  queryThrew: the
\* cycle that just ended was ended by countLogs throwing.  owed: for a rule
\* whose latest delivery was given up and that has had no fetch since, the
\* cooldownMs of the cycle that gave up (0: the rule is not owed).  Of the
\* cycle that just ended: missed, its triggers that were owed and had no
\* fetch; gaveUp, it ended by a delivery given up; endCooldownMs, the
\* cooldownMs of its policy.
NoAlertHist ==
  [okAt |-> [rule \in Rules |-> NaN], sent |-> FALSE, gap |-> 0, cooldownMs |-> 0,
   statuses |-> <<>>, sendCalls |-> 0, webhookRetryAttempts |-> 0,
   queryThrew |-> FALSE, owed |-> [rule \in Rules |-> 0], missed |-> {},
   gaveUp |-> FALSE, endCooldownMs |-> 0]

\* ------------------------------------------------------------------------
\* Alert config: the policy document, its file, the seed options
\* ------------------------------------------------------------------------
NoUrl == "<undefined>"

Null == "<null>"

\* Strings a client or the environment may give as webhook URL, and
\* String.prototype.trim of each.
UrlTexts == {"u1", " u1 ", "u2", " "}

Trim == [t \in UrlTexts |-> IF t = " u1 " THEN "u1" ELSE IF t = " " THEN "" ELSE t]

normalizeWebhookUrl(value) ==
  IF value \notin UrlTexts THEN NoUrl
  ELSE IF Trim[value] = "" THEN NoUrl
  ELSE Trim[value]

\* The fields of the policy the model keeps: the two that decide whether
\* alerting runs, a number with a minimum, an integer with a minimum.
PolicyKeys == {"enabled", "webhookUrl", "cooldownMs", "webhookRetryAttempts"}

\* A JSON object with some of the policy's keys: has is the set of its keys,
\* a key it has not carries the value of EmptyDoc.
EmptyDoc ==
  [has |-> {}, enabled |-> FALSE, webhookUrl |-> Null, cooldownMs |-> 0,
   webhookRetryAttempts |-> 0]

Docs ==
  { d \in [has : SUBSET PolicyKeys, enabled : BOOLEAN,
           webhookUrl : {Null} \cup UrlTexts, cooldownMs : 0..MaxCooldown,
           webhookRetryAttempts : 0..MaxAttempts] :
      /\ "enabled" \notin d.has => d.enabled = EmptyDoc.enabled
      /\ "webhookUrl" \notin d.has => d.webhookUrl = EmptyDoc.webhookUrl
      /\ "cooldownMs" \notin d.has => d.cooldownMs = EmptyDoc.cooldownMs
      /\ "webhookRetryAttempts" \notin d.has
           => d.webhookRetryAttempts = EmptyDoc.webhookRetryAttempts }

\* Seed options (CLI and environment).
SeedOptions ==
  [alertWebhookUrl : {NoUrl, " u1 ", "u2"}, alertCooldownMs : {0, MaxCooldown},
   alertWebhookRetryAttempts : {0, MaxAttempts}]

Max(a, b) == IF a >= b THEN a ELSE b

createAlertPolicyOf(options) ==
  LET webhookUrl == normalizeWebhookUrl(options.alertWebhookUrl) IN
  [enabled |-> webhookUrl # NoUrl, webhookUrl |-> webhookUrl,
   cooldownMs |-> Max(1, options.alertCooldownMs),
   webhookRetryAttempts |-> Max(1, options.alertWebhookRetryAttempts)]

\* parseAlertPolicyUpdate: ok is FALSE where the code throws.
parseAlertPolicyUpdate(body, allowEmpty) ==
  [ok |-> /\ "cooldownMs" \in body.has => body.cooldownMs >= 1
          /\ "webhookRetryAttempts" \in body.has => body.webhookRetryAttempts >= 1
          /\ allowEmpty \/ body.has # {},
   update |-> [body EXCEPT !.webhookUrl = IF @ = Null THEN NoUrl ELSE @]]

\* An apply without the final test of enabled against webhookUrl.
applyAlertPolicyUpdateUnchecked(current, update) ==
  LET webhookUrl == IF "webhookUrl" \in update.has
                      THEN normalizeWebhookUrl(update.webhookUrl)
                      ELSE current.webhookUrl
  IN [ok |-> TRUE,
      policy |-> [enabled |-> IF "enabled" \in update.has THEN update.enabled
                              ELSE IF "webhookUrl" \in update.has THEN webhookUrl # NoUrl
                              ELSE current.enabled,
                  webhookUrl |-> webhookUrl,
                  cooldownMs |-> IF "cooldownMs" \in update.has
                                   THEN update.cooldownMs ELSE current.cooldownMs,
                  webhookRetryAttempts |->
                    IF "webhookRetryAttempts" \in update.has
                      THEN update.webhookRetryAttempts
                      ELSE current.webhookRetryAttempts]]

\* applyAlertPolicyUpdate: ok is FALSE where the code throws.
applyAlertPolicyUpdate(current, update) ==
  LET webhookUrl == IF "webhookUrl" \in update.has
                      THEN normalizeWebhookUrl(update.webhookUrl)
                      ELSE current.webhookUrl
      enabled == IF "enabled" \in update.has THEN update.enabled
                 ELSE IF "webhookUrl" \in update.has THEN webhookUrl # NoUrl
                 ELSE current.enabled
      next == [enabled |-> enabled, webhookUrl |-> webhookUrl,
               cooldownMs |-> IF "cooldownMs" \in update.has
                                THEN update.cooldownMs ELSE current.cooldownMs,
               webhookRetryAttempts |->
                 IF "webhookRetryAttempts" \in update.has
                   THEN update.webhookRetryAttempts ELSE current.webhookRetryAttempts]
  IN [ok |-> ~(next.enabled /\ next.webhookUrl = NoUrl), policy |-> next]

\* JSON.stringify of a policy: a key whose value is undefined is left out.
StringifyPolicy(policy) ==
  [has |-> IF policy.webhookUrl = NoUrl THEN PolicyKeys \ {"webhookUrl"} ELSE PolicyKeys,
   enabled |-> policy.enabled,
   webhookUrl |-> IF policy.webhookUrl = NoUrl THEN EmptyDoc.webhookUrl
                  ELSE policy.webhookUrl,
   cooldownMs |-> policy.cooldownMs,
   webhookRetryAttempts |-> policy.webhookRetryAttempts]

NoConfigFile == [exists |-> FALSE, doc |-> EmptyDoc]

\* loadAlertPolicy: ok is FALSE where the code throws and the server does
\* not start.
loadAlertPolicy(file, fallback) ==
  IF ~file.exists THEN [ok |-> TRUE, policy |-> fallback]
  ELSE LET parsed == parseAlertPolicyUpdate(file.doc, TRUE) IN
       IF ~parsed.ok THEN [ok |-> FALSE, policy |-> fallback]
       ELSE IF parsed.update.has = {} THEN [ok |-> TRUE, policy |-> fallback]
       ELSE applyAlertPolicyUpdate(fallback, parsed.update)

\* AlertingManager.getMaskedPolicy.
getMaskedPolicy(policy) ==
  [policy EXCEPT !.webhookUrl = IF @ # NoUrl THEN "[configured]" ELSE NoUrl]

NoSeed == [alertWebhookUrl |-> NoUrl, alertCooldownMs |-> 0,
           alertWebhookRetryAttempts |-> 0]

\* file: the alert config file.  seed: the options the server was started
\* with.  up: the server is running.  status: the answer to the last PUT.
\* served is history: after the last successful PUT, the raw and the masked
\* policy the server serves; restarted: the step just taken was a restart;
\* enablesWithoutUrl: the body of the last PUT asked for alerting enabled
\* with no webhook URL.
NoAlertConfig ==
  [file |-> NoConfigFile, seed |-> NoSeed, up |-> TRUE, status |-> 0,
   restarted |-> FALSE, enablesWithoutUrl |-> FALSE,
   served |-> [put |-> FALSE,
               raw |-> createAlertPolicyOf(NoSeed),
               masked |-> createAlertPolicyOf(NoSeed)]]

\* ------------------------------------------------------------------------
\* LogQueryService.queryLogsPage over LogDatabase.queryPage
\* ------------------------------------------------------------------------
MaxEntries == 3
MaxStamp == 2
MAX_QUERY_LIMIT == 1000

Min(a, b) == IF a <= b THEN a ELSE b

\* A JavaScript number is kept in halves, so that 1.5 can be told from 1.
Half(n) == 2 * n

\* Math.trunc
Trunc(h) == IF h >= 0 THEN h \div 2 ELSE -((-h) \div 2)

\* log_entries.timestamp is TEXT and compares bytewise: Stamps stands for
\* strings in that order.  log_entries.id is the AUTOINCREMENT key.
Stamps == 1..MaxStamp
EntryIds == 1..MaxEntries
Levels == {"INFO", "ERROR"}

Indexes ==
  { {[id |-> i, timestamp |-> f[i].timestamp, level |-> f[i].level] : i \in ids} :
      ids \in SUBSET EntryIds, f \in [EntryIds -> [timestamp : Stamps, level : Levels]] }

\* LogQueryOptions.limit: number | undefined
LimitInputs ==
  {[kind |-> "undefined", h |-> 0], [kind |-> "NaN", h |-> 0]}
    \cup {[kind |-> "number", h |-> h] :
            h \in {Half(-1), 0, 1, Half(1), 3, Half(2), Half(MAX_QUERY_LIMIT + 1)}}

Falsy(input) == input.kind # "number" \/ input.h = 0

normalizeLimitNoMax(input, fallback, max) ==
  Max(1, Trunc(IF Falsy(input) THEN Half(fallback) ELSE input.h))

normalizeLimit(input, fallback, max) ==
  Max(1, Min(max, Trunc(IF Falsy(input) THEN Half(fallback) ELSE input.h)))

resolveLimit(input, max) ==
  Max(1, Min(max, Trunc(IF Falsy(input) THEN Half(100) ELSE input.h)))

\* The cursor query parameter as text: absent, empty, text that is not the
\* base64url of a JSON object, or the base64url of a JSON object whose id
\* and timestamp members are as given.
NoCursorText ==
  [kind |-> "undefined", id |-> [kind |-> "missing", h |-> 0],
   timestamp |-> [kind |-> "missing", s |-> 0]]

GoodCursorIds == {[kind |-> "number", h |-> h] : h \in {3, Half(MaxEntries + 1)}}

BadCursorIds ==
  {[kind |-> "missing", h |-> 0], [kind |-> "string", h |-> 0], [kind |-> "Infinity", h |-> 0],
   [kind |-> "number", h |-> Half(-1)], [kind |-> "number", h |-> 0]}

GoodCursorStamps == {[kind |-> "string", s |-> s] : s \in {0, 1, MaxStamp + 1}}

BadCursorStamps == {[kind |-> "missing", s |-> 0], [kind |-> "number", s |-> 1]}

CursorTexts ==
  {NoCursorText, [NoCursorText EXCEPT !.kind = "empty"], [NoCursorText EXCEPT !.kind = "garbage"]}
    \cup {[kind |-> "object", id |-> i, timestamp |-> t] :
            i \in GoodCursorIds, t \in GoodCursorStamps \cup BadCursorStamps}
    \cup {[kind |-> "object", id |-> i, timestamp |-> t] :
            i \in BadCursorIds, t \in GoodCursorStamps}

NoCursor == [some |-> FALSE, id |-> 0, timestamp |-> 0]

encodeCursor(cursor) ==
  [kind |-> "object",
   id |-> [kind |-> "number", h |-> Half(cursor.id)],
   timestamp |-> [kind |-> "string", s |-> cursor.timestamp]]

decodeCursorAnyId(cursor) ==
  IF cursor.kind # "object" \/ cursor.timestamp.kind # "string" THEN NoCursor
  ELSE [some |-> TRUE, id |-> Trunc(cursor.id.h), timestamp |-> cursor.timestamp.s]

decodeCursor(cursor) ==
  IF cursor.kind \in {"undefined", "empty"} THEN NoCursor
  ELSE IF cursor.kind = "garbage" THEN NoCursor
  ELSE IF cursor.timestamp.kind # "string" THEN NoCursor
  ELSE IF cursor.id.kind # "number" \/ cursor.id.h <= 0 THEN NoCursor
  ELSE [some |-> TRUE, id |-> Trunc(cursor.id.h), timestamp |-> cursor.timestamp.s]

\* buildFilterSql: the level and from filters
NoLevel == ""
NoFrom == 0
toUpperCase(level) == IF level = "error" THEN "ERROR" ELSE level

QueryFilters == [level : {NoLevel, "error"}, from : {NoFrom, MaxStamp}]

buildFilterSql(options, e) ==
  /\ options.from # NoFrom => e.timestamp >= options.from
  /\ options.level # NoLevel => e.level = toUpperCase(options.level)

\* ORDER BY e.timestamp DESC, e.id DESC
Before(a, b) ==
  \/ a.timestamp > b.timestamp
  \/ a.timestamp = b.timestamp /\ a.id > b.id

RECURSIVE OrderBy(_)
OrderBy(rows) ==
  IF rows = {} THEN <<>>
  ELSE LET top == CHOOSE e \in rows : \A o \in rows \ {e} : Before(e, o)
       IN <<top>> \o OrderBy(rows \ {top})

cursorClauseStampOnly(e, cursor) == e.timestamp < cursor.timestamp

cursorClause(e, cursor) ==
  \/ e.timestamp < cursor.timestamp
  \/ e.timestamp = cursor.timestamp /\ e.id < cursor.id

queryPage(index, options, cursor) ==
  LET limit == resolveLimit(options.limit, 1000)
      selected == {e \in index : /\ buildFilterSql(options, e)
                                 /\ cursor.some => cursorClause(e, cursor)}
      ordered == OrderBy(selected)
      rows == SubSeq(ordered, 1, Min(limit + 1, Len(ordered)))
      hasMore == Len(rows) > limit
  IN [entries |-> IF hasMore THEN SubSeq(rows, 1, limit) ELSE rows,
      hasMore |-> hasMore,
      limit |-> limit]

queryLogsPage(index, options) ==
  LET cursor == decodeCursor(options.cursor)
      limit == normalizeLimit(options.limit, 100, MAX_QUERY_LIMIT)
      page == queryPage(index, [options EXCEPT !.limit = [kind |-> "number", h |-> Half(limit)]], cursor)
  IN [entries |-> page.entries,
      hasMore |-> page.hasMore,
      limit |-> page.limit,
      passed |-> limit,
      nextCursor |-> IF page.hasMore /\ page.entries # <<>>
                       THEN encodeCursor(page.entries[Len(page.entries)])
                       ELSE NoCursorText]

\* The queries of one client.  index: log_entries.  options, page: the last
\* call of queryLogsPage and its result.  History: walking, the last call
\* had no cursor or followed nextCursor from one that had none; walk, the
\* entries returned since; pages, how many calls that took.
NoQuery ==
  [index |-> {},
   options |-> [level |-> NoLevel, from |-> NoFrom,
                limit |-> [kind |-> "undefined", h |-> 0], cursor |-> NoCursorText],
   asked |-> FALSE,
   page |-> [entries |-> <<>>, hasMore |-> FALSE, limit |-> 0, passed |-> 0,
             nextCursor |-> NoCursorText],
   walking |-> FALSE, walk |-> <<>>, pages |-> 0]

\* ------------------------------------------------------------------------
\* File maintenance: cleanupOldLogFiles
\* ------------------------------------------------------------------------
MaxTicks == 2

\* Date.now() and mtimeMs are counted in hours here, so a day is 24.
DAY_MS == 24
DEFAULT_LOG_RETENTION_DAYS == 30
DEFAULT_LOG_AUDIT_RETENTION_DAYS == 365

parsePositiveNumber(value, fallback) ==
  IF ~NumberIsFinite(value) \/ value < 0 THEN fallback ELSE value

\* logRetentionDays and logAuditRetentionDays as given in the options
RetentionOptions ==
  [logRetentionDays : {NaN, 0, 1}, logAuditRetentionDays : {NaN, 0, 1}]

createMaintenancePolicy(options) ==
  [logRetentionDays |->
     parsePositiveNumber(options.logRetentionDays, DEFAULT_LOG_RETENTION_DAYS),
   logAuditRetentionDays |->
     parsePositiveNumber(options.logAuditRetentionDays, DEFAULT_LOG_AUDIT_RETENTION_DAYS)]

\* A path is its segments below the root; a segment is the pieces of its
\* name, cut so that the letters a-u-d-i-t, in any case, are a piece.
LogPaths ==
  { <<<<"app", ".ndjson">>>>,
    <<<<"orders-", "AUDIT", ".ndjson">>>>,
    <<<<"Audit">>, <<"app", ".ndjson">>>>,
    <<<<"audit", "s">>, <<"app", ".ndjson">>>> }

toLowerCase(piece) == IF piece \in {"AUDIT", "Audit"} THEN "audit" ELSE piece

basename(path) == path[Len(path)]

isAuditLogFile(path) ==
  \/ \E d \in 1..(Len(path) - 1) :
        Len(path[d]) = 1 /\ toLowerCase(path[d][1]) = "audit"
  \/ \E i \in 1..Len(basename(path)) : toLowerCase(basename(path)[i]) = "audit"

retentionEnabled(isAuditFile, retentionDays, auditRetentionDays) ==
  IF isAuditFile THEN auditRetentionDays > 0 ELSE retentionDays > 0

cutoffMsNormalOnly(isAuditFile, now, retentionDays, auditRetentionDays) ==
  now - retentionDays * DAY_MS

cutoffMs(isAuditFile, now, retentionDays, auditRetentionDays) ==
  IF isAuditFile THEN now - auditRetentionDays * DAY_MS ELSE now - retentionDays * DAY_MS

\* The files cleanupOldLogFiles removes.
cleanupOldLogFiles(files, now, retentionDays, auditRetentionDays) ==
  IF retentionDays <= 0 /\ auditRetentionDays <= 0 THEN {}
  ELSE {p \in LogPaths :
          /\ files[p].exists
          /\ retentionEnabled(isAuditLogFile(p), retentionDays, auditRetentionDays)
          /\ files[p].mtimeMs <
               cutoffMs(isAuditLogFile(p), now, retentionDays, auditRetentionDays)}

\* Start: Date.now() when the server starts.  MTimes: the mtimes of the
\* files found then, around the horizons of 1, 30 and 365 days.
Start == 366 * DAY_MS

MTimes ==
  {0, Start - 365 * DAY_MS, Start - 30 * DAY_MS - 1, Start - DAY_MS - 1, Start - DAY_MS, Start}

NoLogFile == [exists |-> FALSE, mtimeMs |-> 0]

\* A backup that copies nothing.
copyToBackupNever(backups, files, copied) == backups

\* copyFileSync(filePath, backupPath) for the files of copied: the backup
\* directory holds the file as it is, under its path relative to the logs.
copyToBackup(backups, files, copied) ==
  [p \in LogPaths |-> IF p \in copied THEN files[p] ELSE backups[p]]

\* files: the raw log files.  policy: the MaintenancePolicy.  now: Date.now().
\* auditBackupDirectory: the policy names a backup directory; backups: the
\* files below it, by their path relative to the logs.
\* History: ran, the step just taken was a maintenance run; before, the
\* files that run found; at, the time it read; failedCopy: the files whose
\* copy threw in that run.
NoMaintenance ==
  [files |-> [p \in LogPaths |-> NoLogFile],
   policy |-> createMaintenancePolicy([logRetentionDays |-> NaN, logAuditRetentionDays |-> NaN]),
   now |-> Start, ticks |-> 0,
   auditBackupDirectory |-> FALSE, backups |-> [p \in LogPaths |-> NoLogFile],
   ran |-> FALSE, before |-> [p \in LogPaths |-> NoLogFile], at |-> 0,
   failedCopy |-> {}]

\* ------------------------------------------------------------------------
\* close()
\* ------------------------------------------------------------------------
\* phase: "up" (close not called), "closing" (awaiting server.close),
\* "draining" (awaiting its drainIngestQueue), "closed" (db.close() done and
\* close returned).  calls: the calls of close so far.  shuttingDown: the flag
\* of the signal handler; signals is history, the signals received.  dbOpen:
\* the store's connection is open.  threw: a call of close has thrown.
NoShutdown ==
  [phase |-> "up", calls |-> 0, shuttingDown |-> FALSE, signals |-> 0,
   dbOpen |-> TRUE, threw |-> FALSE]

\* db.close(): DatabaseSync.close throws when the database is not open.
dbClose(sh) ==
  IF sh.dbOpen THEN [sh EXCEPT !.dbOpen = FALSE] ELSE [sh EXCEPT !.threw = TRUE]

\* The intervals once the server has started: the maintenance interval, the
\* auto-ingest interval (auto-ingest is enabled), and the alerting manager's
\* interval as start() leaves it.
startIntervals(policy) ==
  [maintenance |-> TRUE, ingest |-> TRUE, alerts |-> policy.enabled]

\* AlertingManager.reschedule: the interval is cleared, and set again where
\* the policy is enabled (an enabled policy has a webhook URL).
reschedule(timers, policy) == [timers EXCEPT !.alerts = policy.enabled]

\* AlertingManager.stop.
stop(timers) == [timers EXCEPT !.alerts = FALSE]

\* ------------------------------------------------------------------------
\* API authentication
\* ------------------------------------------------------------------------
NoHeader == [scheme |-> "none", user |-> "", secret |-> ""]

NoBasicAuth == [enabled |-> FALSE, username |-> "", password |-> ""]

\* apiToken, basicAuth: what the server was started with ("undefined": no
\* token).  request, status: the last request handled and its answer.
NoApi ==
  [apiToken |-> "undefined", basicAuth |-> NoBasicAuth,
   asked |-> FALSE,
   request |-> [method |-> "GET", path |-> <<"health">>, authorization |-> NoHeader],
   status |-> 0]

\* ------------------------------------------------------------------------
\* normalizeAudit: the is_audit flag of an indexed record
\* ------------------------------------------------------------------------
\* The value of a record's audit field: none, a boolean, a number or a
\* string.
NoField == [kind |-> "undefined", b |-> FALSE, n |-> 0, s |-> ""]

BooleanField(b) == [NoField EXCEPT !.kind = "boolean", !.b = b]

NumberField(n) == [NoField EXCEPT !.kind = "number", !.n = n]

StringField(s) == [NoField EXCEPT !.kind = "string", !.s = s]

AuditFields ==
  {NoField} \cup {BooleanField(b) : b \in BOOLEAN} \cup {NumberField(n) : n \in {0, 1}}
    \cup {StringField(s) : s \in {"true", " TRUE ", "false", "No", "yes", "1", "0",
                                  "maybe", ""}}

\* value.trim().toLowerCase()
trimToLowerCase(s) ==
  IF s = " TRUE " THEN "true" ELSE IF s = "No" THEN "no" ELSE s

\* Files the indexer reads: those of LogPaths and some below directories.
IndexedPaths ==
  LogPaths \cup
  { <<<<"AUDIT">>, <<"orders-", "audit", ".ndjson">>>>,
    <<<<"svc">>, <<"Audit", ".ndjson">>>>,
    <<<<"svc">>, <<"app", ".ndjson">>>>,
    <<<<"svc">>, <<"audit">>, <<"app", ".ndjson">>>> }

\* normalizedPath.includes(`${sep}audit${sep}`)
includesAuditSegment(path) ==
  \E d \in 1..(Len(path) - 1) : Len(path[d]) = 1 /\ toLowerCase(path[d][1]) = "audit"

normalizeAudit(value, filePath) ==
  IF value.kind = "boolean" THEN value.b
  ELSE IF value.kind = "number" THEN value.n # 0
  ELSE IF value.kind = "string" /\ trimToLowerCase(value.s) \in {"true", "1", "yes"}
    THEN TRUE
  ELSE IF value.kind = "string" /\ trimToLowerCase(value.s) \in {"false", "0", "no"}
    THEN FALSE
  ELSE includesAuditSegment(filePath)

NoAudit ==
  [asked |-> FALSE, path |-> <<<<"app", ".ndjson">>>>, field |-> NoField,
   is_audit |-> FALSE]

\* ------------------------------------------------------------------------
\* POST /api/alerts/test-webhook
\* ------------------------------------------------------------------------
\* The manual tests the model lets be made.
MaxTests == 2

\* phase: "idle"; "inflight" (fetch called, not answered); "wait" (waitMs
\* between two attempts).  policy: the copy sendAlertWebhook was given;
\* attempt: its loop variable.  status: the answer to the last request (0:
\* none yet).  tests and calls are history: the requests made and the fetch
\* calls of the last one.
NoWebhookTest ==
  [phase |-> "idle", policy |-> createAlertPolicy, attempt |-> 0, status |-> 0,
   tests |-> 0, calls |-> 0]

\* ------------------------------------------------------------------------
\* Init
\* ------------------------------------------------------------------------
InitIndexer ==
  /\ fs = [f \in Files |-> NoFile]
  /\ clock = 0
  /\ logEntries = {}
  /\ incrementalState = EmptyMap
  /\ ingest = createIngestState
  /\ inc = IncIdle
  /\ full = FullIdle
  /\ hist = [f \in Files |-> NoHist]
  /\ fullBase = NoBase
  /\ synced = FALSE
  /\ last = NoLast

InitIngest ==
  /\ requests = [r \in Requests |-> NoRequest]
  /\ queue = createIngestQueueState
  /\ failures = 0

InitAlerts ==
  /\ alertNow = 0
  /\ alertPolicy = createAlertPolicy
  /\ alertState = createAlertState
  /\ alertCycle = NoCycle
  /\ alertHist = NoAlertHist

InitService ==
  /\ alertConfig = NoAlertConfig
  /\ query = NoQuery
  /\ maintenance = NoMaintenance
  /\ shutdown = NoShutdown
  /\ api = NoApi
  /\ intervals = startIntervals(alertPolicy)
  /\ audit = NoAudit
  /\ webhookTest = NoWebhookTest

\* The server with the installation's defaults: synchronous ingest.
Init ==
  /\ InitIndexer
  /\ InitIngest
  /\ queueEnabled = FALSE
  /\ InitAlerts
  /\ InitService

\* ------------------------------------------------------------------------
\* Writers of the logs tree (the environment of the indexer)
\* ------------------------------------------------------------------------
\* History kept by every write to file f.
NoteWrite(f, wholeLines, n, r) ==
  /\ hist' = [hist EXCEPT ![f] =
       IF ~@.seen THEN @
       ELSE IF wholeLines THEN [@ EXCEPT !.appended = @ + n, !.records = @ + r]
                          ELSE [@ EXCEPT !.onlyAppends = FALSE]]
  /\ inc' = IF inc.phase = "idle" THEN inc
            ELSE [inc EXCEPT !.clean = FALSE,
                             !.window = @ \/ (inc.phase = "read" /\ inc.files[inc.i] = f)]
  /\ full' = IF full.phase = "idle" THEN full ELSE [full EXCEPT !.clean = FALSE]
  /\ fullBase' = NoBase
  /\ synced' = FALSE

\* A chunk is appended to the file, which is created if absent.
appendFile(f, chunk) ==
  /\ clock' = clock + 1
  /\ fs' = [fs EXCEPT ![f] = [exists |-> TRUE, data |-> fs[f].data \o chunk,
                              mtimeMs |-> clock + 1]]
  /\ NoteWrite(f, fs[f].exists /\ EndsWithLF(fs[f].data) /\ EndsWithLF(chunk),
               CountLF(chunk), CountRecords(chunk))
  /\ UNCHANGED <<logEntries, incrementalState, ingest>>

\* The application appends to its log file.
AppendChunk(f, chunk) ==
  /\ clock < MaxWrites
  /\ appendFile(f, chunk)
  /\ last' = NoLast
  /\ UNCHANGED <<ingestVars, alertVars, serviceVars>>

\* The file is truncated in place (the first half of a rewrite).
TruncateFile(f) ==
  /\ clock < MaxWrites
  /\ fs[f].exists
  /\ fs[f].data # <<>>
  /\ clock' = clock + 1
  /\ fs' = [fs EXCEPT ![f] = [exists |-> TRUE, data |-> <<>>, mtimeMs |-> clock + 1]]
  /\ NoteWrite(f, FALSE, 0, 0)
  /\ last' = NoLast
  /\ UNCHANGED <<logEntries, incrementalState, ingest, ingestVars, alertVars, serviceVars>>

\* The file is removed (the first half of a rotation).
DeleteFile(f) ==
  /\ fs[f].exists
  /\ fs' = [fs EXCEPT ![f] = NoFile]
  /\ NoteWrite(f, FALSE, 0, 0)
  /\ last' = NoLast
  /\ UNCHANGED <<clock, logEntries, incrementalState, ingest, ingestVars, alertVars, serviceVars>>

\* ------------------------------------------------------------------------
\* LogIndexer.indexFileIncremental: the decision taken after stat
\* ------------------------------------------------------------------------
hasValidOffset(prev) == prev.byteOffset >= 0

\* A comparison that looks at the size alone.
rewrittenInPlaceSizeOnly(prev, stats) ==
  stats.size < prev.byteOffset

rewrittenInPlace(prev, stats) ==
  \/ stats.size < prev.byteOffset
  \/ (stats.mtimeMs # prev.mtimeMs /\ stats.size = prev.byteOffset)

shouldResume(cursors, f, stats) ==
  /\ f \in DOMAIN cursors
  /\ hasValidOffset(cursors[f])
  /\ ~rewrittenInPlace(cursors[f], stats)
  /\ stats.size >= cursors[f].byteOffset

shouldPurge(cursors, f, stats) ==
  /\ f \in DOMAIN cursors
  /\ hasValidOffset(cursors[f])
  /\ ~shouldResume(cursors, f, stats)

\* ------------------------------------------------------------------------
\* runIncrementalIngest / indexDirectoryIncremental
\* ------------------------------------------------------------------------
\* runIncrementalIngest returns to its caller: the handler of a synchronous
\* request answers 200, the drain goes back to its loop.
Returned(owner) ==
  /\ requests' = IF owner.kind = "request"
                   THEN [requests EXCEPT ![owner.req] =
                          [@ EXCEPT !.phase = "done",
                                    !.response =
                                      IngestResponse(requests[owner.req], 200, FALSE)]]
                   ELSE requests
  /\ queue' = IF owner.kind = "queue" THEN [queue EXCEPT !.phase = "loop"] ELSE queue
  /\ UNCHANGED <<failures, queueEnabled, alertVars, serviceVars>>

\* The pass returns its report: runIncrementalIngest records it and releases
\* the running flag; cursors of files that were not listed are dropped.
IncFinish(p, cursors, rep, readFile, pre2) ==
  /\ incrementalState' = MapKeep(cursors, SeqToSet(p.files))
  /\ ingest' = [ingest EXCEPT !.running = FALSE, !.lastError = FALSE]
  /\ inc' = IncIdle
  /\ synced' = p.clean
  /\ last' = [NoLast EXCEPT !.op = "incremental", !.file = readFile, !.pre2 = pre2,
                            !.done = TRUE, !.pre3 = p.pre3, !.k3 = p.k3, !.r3 = p.r3,
                            !.report = rep, !.reply = p.owner.req]
  /\ Returned(p.owner)

\* The pass goes on to its next file.
IncContinue(p, cursors, readFile, pre2) ==
  /\ incrementalState' = cursors
  /\ inc' = [p EXCEPT !.phase = "stat", !.i = @ + 1, !.window = FALSE]
  /\ last' = [NoLast EXCEPT !.op = "incremental", !.file = readFile, !.pre2 = pre2]
  /\ UNCHANGED <<ingest, synced, ingestVars, alertVars, serviceVars>>

IncAdvance(p, cursors, rep, readFile, pre2) ==
  IF p.i >= Len(p.files)
    THEN IncFinish(p, cursors, rep, readFile, pre2)
    ELSE IncContinue([p EXCEPT !.report = rep], cursors, readFile, pre2)

\* Files the indexer had read and that are gone from the listing.
ForgetAbsent(h, files) ==
  [f \in Files |-> IF f \in SeqToSet(files) THEN h[f] ELSE NoHist]

\* runIncrementalIngest is entered: the flag is taken and the tree is listed.
StartPass(owner) ==
  /\ ~ingest.running
  /\ inc.phase = "idle"
  /\ ingest' = [ingest EXCEPT !.running = TRUE]
  /\ LET files == listNdjsonFiles IN
     /\ inc' = [IncIdle EXCEPT !.phase = IF files = <<>> THEN "finish" ELSE "stat",
                               !.owner = owner, !.files = files, !.i = 1,
                               !.report.filesScanned = Len(files)]
     /\ hist' = ForgetAbsent(hist, files)
  /\ last' = NoLast
  /\ UNCHANGED <<fs, clock, logEntries, incrementalState, full, fullBase, synced>>

\* The auto-ingest interval fires.
TickPass ==
  /\ StartPass(TickOwner)
  /\ UNCHANGED <<ingestVars, alertVars, serviceVars>>

\* A pass over a tree with no file.
FinishEmptyPass ==
  /\ inc.phase = "finish"
  /\ IncFinish(inc, incrementalState, inc.report, "", FALSE)
  /\ UNCHANGED <<fs, clock, logEntries, full, hist, fullBase>>

\* stat of the current file, the comparison with its cursor, and the purge.
StatFile ==
  /\ inc.phase = "stat"
  /\ LET f == inc.files[inc.i] IN
     IF ~fs[f].exists
       THEN \* ENOENT: the cursor is dropped and the file skipped
            /\ hist' = [hist EXCEPT ![f] = NoHist]
            /\ IncAdvance([inc EXCEPT !.pre3 = FALSE], MapDelete(incrementalState, f),
                          inc.report, "", FALSE)
            /\ UNCHANGED <<fs, clock, logEntries, full, fullBase>>
       ELSE LET stats == [size |-> Len(fs[f].data), mtimeMs |-> fs[f].mtimeMs]
                resume == shouldResume(incrementalState, f, stats)
                purge == shouldPurge(incrementalState, f, stats)
                h == hist[f]
            IN
            /\ logEntries' = IF purge THEN deleteEntriesForSourceFile(logEntries, f)
                                      ELSE logEntries
            /\ fullBase' = IF purge THEN NoBase ELSE fullBase
            /\ inc' = [inc EXCEPT
                 !.phase = "read", !.stats = stats, !.window = FALSE,
                 !.pre2 = h.seen /\ (stats.size < h.size
                                     \/ (stats.size = h.size /\ stats.mtimeMs # h.mtimeMs)),
                 !.startOffset = IF resume THEN incrementalState[f].byteOffset ELSE 0,
                 !.lineNumber = IF resume THEN incrementalState[f].lineNumber ELSE 0]
            /\ last' = NoLast
            /\ UNCHANGED <<fs, clock, incrementalState, ingest, full, hist, synced,
                           ingestVars, alertVars, serviceVars>>

\* An error thrown inside the pass (the file is gone when it is opened, or
\* processLine throws): runIncrementalIngest records it and releases the
\* flag; no cursor of the failing file is written.
AbortPass ==
  /\ ingest' = [ingest EXCEPT !.running = FALSE, !.lastError = TRUE]
  /\ inc' = IncIdle
  /\ last' = [NoLast EXCEPT !.reply = inc.owner.req]
  /\ Returned(inc.owner)
  /\ UNCHANGED <<incrementalState, synced>>

\* The read of the current file from startOffset to its end, line by line,
\* and the new cursor.
ReadFile ==
  /\ inc.phase = "read"
  /\ LET f == inc.files[inc.i] IN
     IF ~fs[f].exists
       THEN /\ AbortPass
            /\ UNCHANGED <<fs, clock, logEntries, full, hist, fullBase>>
       ELSE LET data == fs[f].data
                bytes == SubSeq(data, inc.startOffset + 1, Len(data))
                res == ScanLines([db |-> logEntries, report |-> inc.report, threw |-> FALSE],
                                 f, inc.lineNumber, ReadLines(bytes))
                cursor == [byteOffset |-> inc.startOffset + Len(bytes),
                           fileSize |-> inc.stats.size,
                           lineNumber |-> res.lineNumber,
                           mtimeMs |-> inc.stats.mtimeMs]
                h == hist[f]
                p == [inc EXCEPT !.pre3 = @ /\ h.seen /\ h.onlyAppends /\ ~h.raced,
                                 !.k3 = @ + h.appended, !.r3 = @ + h.records]
            IN
            IF res.threw
              THEN /\ logEntries' = res.db
                   /\ AbortPass
                   /\ UNCHANGED <<fs, clock, full, hist, fullBase>>
              ELSE /\ logEntries' = res.db
                   /\ hist' = [hist EXCEPT ![f] =
                        [seen |-> TRUE, size |-> Len(data), mtimeMs |-> fs[f].mtimeMs,
                         appended |-> 0, records |-> 0, onlyAppends |-> TRUE,
                         raced |-> inc.window]]
                   /\ IncAdvance(p, MapSet(incrementalState, f, cursor), res.report,
                                 f, inc.pre2 /\ ~inc.window)
                   /\ UNCHANGED <<fs, clock, full, fullBase>>

\* The server process stops and starts again: the store and the tree stay,
\* everything held in memory is lost.
Restart ==
  /\ incrementalState' = EmptyMap
  /\ ingest' = createIngestState
  /\ inc' = IncIdle
  /\ full' = FullIdle
  /\ hist' = [f \in Files |-> NoHist]
  /\ last' = NoLast
  /\ queue' = createIngestQueueState
  /\ UNCHANGED <<fs, clock, logEntries, fullBase, synced, requests, failures,
                 queueEnabled, alertVars, serviceVars>>

\* ------------------------------------------------------------------------
\* indexDirectory (full mode) and POST /api/reindex
\* ------------------------------------------------------------------------
FullFinish(db, rep) ==
  /\ full' = FullIdle
  /\ fullBase' = IF full.clean THEN [valid |-> TRUE, db |-> db] ELSE NoBase
  /\ last' = [NoLast EXCEPT !.op = "full", !.done = TRUE, !.report = rep,
                            !.pre4 = fullBase.valid /\ full.clean,
                            !.same = (db = fullBase.db)]

\* kind "index": indexDirectory alone; kind "reindex": the cursors and the
\* table are reset first.
StartFull(kind) ==
  /\ full.phase = "idle"
  /\ LET files == listNdjsonFiles IN
     full' = [FullIdle EXCEPT !.phase = IF files = <<>> THEN "finish" ELSE "read",
                              !.kind = kind, !.files = files, !.i = 1,
                              !.report.filesScanned = Len(files)]
  /\ IF kind = "reindex"
       THEN /\ incrementalState' = EmptyMap
            /\ logEntries' = {}
            /\ hist' = [f \in Files |-> NoHist]
            /\ fullBase' = NoBase
       ELSE UNCHANGED <<incrementalState, logEntries, hist, fullBase>>
  /\ last' = NoLast
  /\ UNCHANGED <<fs, clock, ingest, inc, synced, ingestVars, alertVars, serviceVars>>

FinishEmptyFull ==
  /\ full.phase = "finish"
  /\ FullFinish(logEntries, full.report)
  /\ UNCHANGED <<fs, clock, logEntries, incrementalState, ingest, inc, hist, synced,
                 ingestVars, alertVars, serviceVars>>

\* indexFileFull on the current file.
FullReadFile ==
  /\ full.phase = "read"
  /\ LET f == full.files[full.i] IN
     IF ~fs[f].exists
       THEN /\ full' = FullIdle
            /\ last' = NoLast
            /\ UNCHANGED <<logEntries, fullBase>>
       ELSE LET res == ScanLines([db |-> logEntries, report |-> full.report, threw |-> FALSE],
                                 f, 0, ReadLines(fs[f].data))
            IN
            /\ logEntries' = res.db
            /\ IF res.threw
                 THEN /\ full' = FullIdle
                      /\ last' = NoLast
                      /\ UNCHANGED fullBase
                 ELSE IF full.i >= Len(full.files)
                        THEN FullFinish(res.db, res.report)
                        ELSE /\ full' = [full EXCEPT !.i = @ + 1, !.report = res.report]
                             /\ last' = NoLast
                             /\ UNCHANGED fullBase
  /\ UNCHANGED <<fs, clock, incrementalState, ingest, inc, hist, synced,
                 ingestVars, alertVars, serviceVars>>

\* ------------------------------------------------------------------------
\* POST /api/ingest: credentials, payloads, normalisation
\* ------------------------------------------------------------------------
Undefined == "undefined"

\* MIKROSCOPE_INGEST_PRODUCERS: token "t1" is bound to producer "p1".
producerByToken == [t \in {"t1"} |-> "p1"]

basicAuth == [enabled |-> TRUE, username |-> "admin", password |-> "pw"]

\* Authorization headers a client may send.
Authorizations ==
  { [scheme |-> "bearer", user |-> "", secret |-> "t1"],
    [scheme |-> "bearer", user |-> "", secret |-> "tx"],
    [scheme |-> "basic", user |-> "admin", secret |-> "pw"],
    [scheme |-> "basic", user |-> "admin", secret |-> "no"] }

getAuthorizationToken(header) ==
  IF header.scheme = "bearer" /\ header.secret # "" THEN header.secret ELSE Undefined

getAuthenticatedBasicUsername(header, policy) ==
  IF ~policy.enabled THEN Undefined
  ELSE IF header.scheme # "basic" THEN Undefined
  ELSE IF header.user # policy.username THEN Undefined
  ELSE IF header.secret # policy.password THEN Undefined
  ELSE header.user

resolveIngestProducerId(header, policy, byToken) ==
  LET basicUsername == getAuthenticatedBasicUsername(header, policy)
      token == getAuthorizationToken(header)
  IN IF basicUsername # Undefined THEN basicUsername
     ELSE IF token = Undefined THEN Undefined
     ELSE IF token \in DOMAIN byToken THEN byToken[token]
     ELSE Undefined

\* A value of the logs array: an object, with the producerId it carries
\* ("": it carries none), or something that is not an object.
Scalar == [kind |-> "scalar", producerId |-> ""]

Object(p) == [kind |-> "object", producerId |-> p]

NotARecord == [kind |-> "undefined", producerId |-> ""]

\* Request bodies: isLogs is whether parseIngestPayload finds an array.
Payloads ==
  { [isLogs |-> FALSE, logs |-> <<>>],
    [isLogs |-> TRUE, logs |-> <<Scalar>>],
    [isLogs |-> TRUE, logs |-> <<Object("")>>],
    [isLogs |-> TRUE, logs |-> <<Object("admin"), Scalar>>],
    [isLogs |-> TRUE, logs |-> <<Object("p1"), Object("")>>] }

\* A normalisation that leaves a producerId the payload carries in place.
normalizeIngestRecordKeep(value, producerId) ==
  IF value.kind # "object" THEN NotARecord
  ELSE IF value.producerId # "" THEN value
  ELSE [value EXCEPT !.producerId = producerId]

\* ingestedAt, which the code also sets, is not modelled.
normalizeIngestRecord(value, producerId) ==
  IF value.kind # "object" THEN NotARecord
  ELSE [value EXCEPT !.producerId = producerId]

\* The loop of the handler over the logs: the accepted records.
AcceptedRecords(logs, producerId) ==
  SelectSeq([k \in 1..Len(logs) |-> normalizeIngestRecord(logs[k], producerId)],
            LAMBDA v : v.kind # "undefined")

\* JSON.stringify of a record.
Stringify(record) == <<LB, record.producerId, RB>>

\* writeIngestBatch: the lines joined by a line feed, and one after the last.
RECURSIVE BatchChunk(_)
BatchChunk(records) ==
  IF records = <<>> THEN <<>>
  ELSE Stringify(Head(records)) \o <<LF>> \o BatchChunk(Tail(records))

\* ------------------------------------------------------------------------
\* The ingest queue
\* ------------------------------------------------------------------------
\* An item: reqs is history, the requests its records came from.
QueueItem(r, producerId, records) ==
  [producerId |-> producerId, records |-> records,
   reqs |-> <<[req |-> r, n |-> Len(records)]>>]

MergeInto(merged, item) ==
  IF \E j \in 1..Len(merged) : merged[j].producerId = item.producerId
    THEN LET j == CHOOSE k \in 1..Len(merged) : merged[k].producerId = item.producerId
         IN [merged EXCEPT ![j].records = @ \o item.records,
                           ![j].reqs = @ \o item.reqs]
    ELSE Append(merged, item)

RECURSIVE MergeAcc(_, _)
MergeAcc(items, merged) ==
  IF items = <<>> THEN merged
  ELSE MergeAcc(Tail(items), MergeInto(merged, Head(items)))

mergeIngestQueueItems(items) == MergeAcc(items, <<>>)

\* A schedule that never arms the timer.
scheduleIngestQueueFlushNever(q) == q

scheduleIngestQueueFlush(q) ==
  IF q.draining \/ q.timer THEN q ELSE [q EXCEPT !.timer = TRUE]

\* A count of the items in place of their records.
itemCount(items) == Len(items)

\* items.reduce((sum, item) => sum + item.records.length, 0)
RECURSIVE recordCount(_)
recordCount(items) ==
  IF items = <<>> THEN 0 ELSE Len(Head(items).records) + recordCount(Tail(items))

enqueueIngestQueueBatch(q, item) ==
  IF item.records = <<>> THEN q
  ELSE scheduleIngestQueueFlush(
         [q EXCEPT !.pending = Append(@, item),
                   !.pendingRecords = @ + Len(item.records),
                   !.recordsQueued = @ + Len(item.records)])

\* An entry of the drain that does not test the draining flag.
drainIngestQueueUnguarded(q) ==
  [q EXCEPT !.draining = TRUE, !.phase = "loop", !.active = @ + 1]

\* drainIngestQueue up to its while loop: a call made while a drain is in
\* progress returns at once.
drainIngestQueue(q) ==
  IF q.draining THEN q
  ELSE [q EXCEPT !.draining = TRUE, !.phase = "loop", !.active = @ + 1]

RECURSIVE SumBefore(_, _)
SumBefore(reqs, k) == IF k <= 1 THEN 0 ELSE reqs[k - 1].n + SumBefore(reqs, k - 1)

\* History: where the records of each request of a written item landed.
NoteAppended(reqsNow, item, file) ==
  LET base == Len(ReadLines(fs[file].data)) IN
  [x \in Requests |->
     IF \E k \in 1..Len(item.reqs) : item.reqs[k].req = x
       THEN LET k == CHOOSE j \in 1..Len(item.reqs) : item.reqs[j].req = x
            IN [reqsNow[x] EXCEPT !.file = file,
                                  !.first = base + 1 + SumBefore(item.reqs, k)]
       ELSE reqsNow[x]]

indexVarsButLast ==
  <<fs, clock, logEntries, incrementalState, ingest, inc, full, hist, fullBase, synced>>

\* ------------------------------------------------------------------------
\* POST /api/ingest: the handler
\* ------------------------------------------------------------------------
\* The handler up to its first wait: authentication, body, normalisation,
\* and then either the answer, the enqueue (queue mode) or the start of
\* flushIngestQueueBatch (synchronous mode).
Receive(r, header, payload) ==
  /\ requests[r].phase = "none"
  /\ IF r = 1 THEN TRUE ELSE requests[r - 1].phase # "none"
  /\ LET producerId == resolveIngestProducerId(header, basicAuth, producerByToken)
         accepted == AcceptedRecords(payload.logs, producerId)
         req == requests[r]
         seen == [req EXCEPT !.authorization = header, !.logs = payload.logs,
                             !.producerId = producerId, !.accepted = accepted,
                             !.rejected = Len(payload.logs) - Len(accepted)]
     IN
     IF producerId = Undefined
       THEN /\ requests' = [requests EXCEPT ![r] =
                 [req EXCEPT !.phase = "done", !.response.status = 401]]
            /\ UNCHANGED queue
     ELSE IF ~payload.isLogs
       THEN /\ requests' = [requests EXCEPT ![r] =
                 [req EXCEPT !.phase = "done", !.response.status = 400]]
            /\ UNCHANGED queue
     ELSE IF accepted = <<>>
       THEN /\ requests' = [requests EXCEPT ![r] =
                 [seen EXCEPT !.phase = "done",
                              !.response = IngestResponse(seen, 200, FALSE)]]
            /\ UNCHANGED queue
     ELSE IF queueEnabled
       THEN /\ queue' = enqueueIngestQueueBatch(queue, QueueItem(r, producerId, accepted))
            /\ requests' = [requests EXCEPT ![r] =
                 [seen EXCEPT !.phase = "queued",
                              !.response = IngestResponse(seen, 202, TRUE)]]
       ELSE /\ requests' = [requests EXCEPT ![r] = [seen EXCEPT !.phase = "writing"]]
            /\ UNCHANGED queue
  /\ last' = NoLast
  /\ UNCHANGED <<indexVarsButLast, failures, queueEnabled, alertVars, serviceVars>>

\* Synchronous mode: appendFile of writeIngestBatch completes.
SyncWrite(r) ==
  /\ requests[r].phase = "writing"
  /\ LET item == QueueItem(r, requests[r].producerId, requests[r].accepted)
         file == ProducerFile[item.producerId]
     IN /\ appendFile(file, BatchChunk(item.records))
        /\ requests' = [NoteAppended(requests, item, file) EXCEPT ![r].phase = "written"]
  /\ last' = NoLast
  /\ UNCHANGED <<queue, failures, queueEnabled, alertVars, serviceVars>>

\* Synchronous mode: appendFile fails; the handler's rejection is answered 500.
SyncWriteFail(r) ==
  /\ requests[r].phase = "writing"
  /\ failures < MaxFailures
  /\ failures' = failures + 1
  /\ requests' = [requests EXCEPT ![r] =
       [@ EXCEPT !.phase = "done", !.response.status = 500]]
  /\ last' = NoLast
  /\ UNCHANGED <<indexVarsButLast, queue, queueEnabled, alertVars, serviceVars>>

\* Synchronous mode: after the write, flushIngestQueueBatch awaits
\* runIncrementalIngest, which returns at once when a pass is in flight.
SyncIndex(r) ==
  /\ requests[r].phase = "written"
  /\ IF ingest.running
       THEN /\ requests' = [requests EXCEPT ![r] =
                 [@ EXCEPT !.phase = "done",
                           !.response = IngestResponse(requests[r], 200, FALSE)]]
            /\ last' = [NoLast EXCEPT !.reply = r]
            /\ UNCHANGED indexVarsButLast
       ELSE /\ StartPass(RequestOwner(r))
            /\ requests' = [requests EXCEPT ![r].phase = "indexing"]
  /\ UNCHANGED <<queue, failures, queueEnabled, alertVars, serviceVars>>

\* ------------------------------------------------------------------------
\* Queue mode: the flush timer and drainIngestQueue
\* ------------------------------------------------------------------------
\* The timer of scheduleIngestQueueFlush fires and drainIngestQueue is entered.
TimerFires ==
  /\ queue.timer
  /\ queue' = drainIngestQueue([queue EXCEPT !.timer = FALSE])
  /\ last' = NoLast
  /\ UNCHANGED <<indexVarsButLast, requests, failures, queueEnabled, alertVars, serviceVars>>

\* The while test of the drain: splice everything pending off and flush it,
\* or leave through the finally block.
DrainLoop ==
  /\ queue.phase = "loop"
  /\ queue' = IF queue.pending # <<>>
                THEN [queue EXCEPT !.pending = <<>>, !.taken = queue.pending,
                                   !.pendingRecords = @ - recordCount(queue.pending),
                                   !.merged = mergeIngestQueueItems(queue.pending),
                                   !.i = 1, !.phase = "write"]
                ELSE [queue EXCEPT !.draining = FALSE, !.phase = "idle",
                                   !.taken = <<>>, !.merged = <<>>, !.i = 0,
                                   !.active = @ - 1]
  /\ last' = NoLast
  /\ UNCHANGED <<indexVarsButLast, requests, failures, queueEnabled, alertVars, serviceVars>>

\* flushIngestQueueBatch writes the next merged item.
QueueWrite ==
  /\ queue.phase = "write"
  /\ LET item == queue.merged[queue.i]
         file == ProducerFile[item.producerId]
     IN /\ appendFile(file, BatchChunk(item.records))
        /\ requests' = NoteAppended(requests, item, file)
  /\ queue' = IF queue.i >= Len(queue.merged)
                THEN [queue EXCEPT !.phase = "index", !.lastError = FALSE,
                                   !.recordsFlushed = @ + recordCount(queue.merged)]
                ELSE [queue EXCEPT !.i = @ + 1]
  /\ last' = NoLast
  /\ UNCHANGED <<failures, queueEnabled, alertVars, serviceVars>>

\* A failed write whose items are not put back.
QueueWriteFailDrop ==
  /\ queue.phase = "write"
  /\ failures < MaxFailures
  /\ failures' = failures + 1
  /\ queue' = scheduleIngestQueueFlush(
       [queue EXCEPT !.lastError = TRUE,
                     !.draining = FALSE, !.phase = "idle",
                     !.taken = <<>>, !.merged = <<>>, !.i = 0, !.active = @ - 1])
  /\ last' = NoLast
  /\ UNCHANGED <<indexVarsButLast, requests, queueEnabled, alertVars, serviceVars>>

\* appendFile fails: the drain puts the items it took back in front, leaves
\* its loop, and its finally block schedules the next flush.
QueueWriteFail ==
  /\ queue.phase = "write"
  /\ failures < MaxFailures
  /\ failures' = failures + 1
  /\ queue' = scheduleIngestQueueFlush(
       [queue EXCEPT !.lastError = TRUE, !.pending = queue.taken \o @,
                     !.pendingRecords = @ + recordCount(queue.taken),
                     !.draining = FALSE, !.phase = "idle",
                     !.taken = <<>>, !.merged = <<>>, !.i = 0, !.active = @ - 1])
  /\ last' = NoLast
  /\ UNCHANGED <<indexVarsButLast, requests, queueEnabled, alertVars, serviceVars>>

\* flushIngestQueueBatch awaits runIncrementalIngest.
QueueIndex ==
  /\ queue.phase = "index"
  /\ IF ingest.running
       THEN /\ queue' = [queue EXCEPT !.phase = "loop"]
            /\ last' = NoLast
            /\ UNCHANGED indexVarsButLast
       ELSE /\ StartPass(QueueOwner)
            /\ queue' = [queue EXCEPT !.phase = "indexing"]
  /\ UNCHANGED <<requests, failures, queueEnabled, alertVars, serviceVars>>

\* ------------------------------------------------------------------------
\* AlertingManager
\* ------------------------------------------------------------------------
shouldRetryWebhookStatusAll(status) == TRUE

shouldRetryWebhookStatus(status) == status = 408 \/ status = 429 \/ status >= 500

\* Every answer taken for a success.
responseOkAll(status) == TRUE

\* Response.ok
responseOk(status) == status >= 200 /\ status <= 299

\* AlertWebhookError.retryable of the reason sendAlertWebhook caught.
retryable(status) ==
  IF status = NetworkError THEN TRUE ELSE shouldRetryWebhookStatus(status)

nextAttemptSame(attempt) == attempt

\* attempt++ of the loop of sendAlertWebhook.
nextAttempt(attempt) == attempt + 1

inCooldownNever(lastSentIso, nowMs, policy) == FALSE

\* The suppression test of runCycle.
inCooldown(lastSentIso, nowMs, policy) ==
  LET lastSentMs == IF lastSentIso # NoIso THEN DateParse(lastSentIso) ELSE NaN
  IN NumberIsFinite(lastSentMs) /\ nowMs - lastSentMs < policy.cooldownMs

\* The triggers of a cycle, from what the two counts of the window say.
computeTriggers(errorHigh, noLogs) ==
  (IF errorHigh THEN <<"error_threshold">> ELSE <<>>)
    \o (IF noLogs THEN <<"no_logs">> ELSE <<>>)

\* The first trigger from t on that is not suppressed; Len(triggers) + 1 when
\* there is none.
RECURSIVE nextTrigger(_, _, _, _, _)
nextTrigger(lastTriggerAtByRule, triggers, t, nowMs, policy) ==
  IF t > Len(triggers) THEN t
  ELSE IF inCooldown(lastTriggerAtByRule[triggers[t]], nowMs, policy)
    THEN nextTrigger(lastTriggerAtByRule, triggers, t + 1, nowMs, policy)
    ELSE t

alertOthers == <<indexVars, ingestVars, serviceVars>>

\* The service variables but the intervals.
timerOthers == <<alertConfig, query, maintenance, shutdown, api, audit, webhookTest>>

\* History of the latest send is kept while its cycle runs and in the state
\* the cycle ends in.
ForgetSend(h) ==
  IF alertCycle.phase = "idle"
    THEN [NoAlertHist EXCEPT !.okAt = h.okAt, !.owed = h.owed]
    ELSE h

\* History at the end of a cycle: its triggers that were owed a delivery and
\* had no fetch.
Missed(cyc, h) ==
  [h EXCEPT !.missed = {rule \in Rules : /\ \E k \in 1..Len(cyc.triggers) :
                                               cyc.triggers[k] = rule
                                          /\ h.owed[rule] > 0},
            !.endCooldownMs = cyc.policy.cooldownMs]

\* History when the delivery of the cycle's current trigger is given up.
GaveUp(cyc, h) ==
  [Missed(cyc, h) EXCEPT !.owed[cyc.triggers[cyc.t]] = cyc.policy.cooldownMs,
                         !.gaveUp = TRUE]

\* Time passes.
AdvanceTime ==
  /\ alertNow < MaxTime
  /\ alertNow' = alertNow + 1
  /\ alertHist' = ForgetSend(alertHist)
  /\ UNCHANGED <<alertPolicy, alertState, alertCycle, alertOthers>>

\* PUT /api/alerts/config: the policy is set and the interval rescheduled.
updatePolicy(update) ==
  /\ alertPolicy' = update
  /\ intervals' = reschedule(intervals, update)
  /\ alertHist' = ForgetSend(alertHist)
  /\ UNCHANGED <<alertNow, alertState, alertCycle, indexVars, ingestVars, timerOthers>>

\* An end of the cycle that leaves the running flag set.
EndCycleStillRunning(st, h) ==
  /\ alertState' = st
  /\ alertCycle' = NoCycle
  /\ alertHist' = h

\* The cycle ends: st is the state its try or catch block left.
EndCycle(st, h) ==
  /\ alertState' = [st EXCEPT !.running = FALSE]
  /\ alertCycle' = NoCycle
  /\ alertHist' = h

\* sendAlertWebhook calls fetch.
CallFetch(cyc, st, h) ==
  /\ alertState' = st
  /\ alertCycle' = [cyc EXCEPT !.phase = "inflight", !.calls = @ + 1]
  /\ alertHist' = [h EXCEPT !.sendCalls = @ + 1]

\* The loop over the triggers from trigger t on, up to its next await.
RunFrom(cyc, st, h, t) ==
  LET t2 == nextTrigger(st.lastTriggerAtByRule, cyc.triggers, t, cyc.nowMs, cyc.policy)
      st2 == [st EXCEPT !.suppressed = @ + (t2 - t)]
  IN IF t2 > Len(cyc.triggers)
       THEN EndCycle([st2 EXCEPT !.lastError = FALSE], Missed(cyc, h))
       ELSE CallFetch([cyc EXCEPT !.t = t2, !.attempt = 1], st2,
                      [h EXCEPT !.statuses = <<>>, !.sendCalls = 0,
                                !.owed[cyc.triggers[t2]] = 0,
                                !.webhookRetryAttempts = cyc.policy.webhookRetryAttempts])

\* runCycle is called, by start or by the interval.
StartCycle(errorHigh, noLogs) ==
  /\ intervals.alerts
  /\ alertPolicy.enabled
  /\ ~alertState.running
  /\ alertState.runs < MaxRuns
  /\ RunFrom([NoCycle EXCEPT !.policy = alertPolicy, !.nowMs = alertNow,
                             !.triggers = computeTriggers(errorHigh, noLogs)],
             [alertState EXCEPT !.running = TRUE, !.runs = @ + 1],
             ForgetSend(alertHist), 1)
  /\ UNCHANGED <<alertNow, alertPolicy, alertOthers>>

\* runCycle is called and countLogs throws: the catch block and the finally
\* block run before the call returns.
StartCycleQueryThrows ==
  /\ intervals.alerts
  /\ alertPolicy.enabled
  /\ ~alertState.running
  /\ alertState.runs < MaxRuns
  /\ EndCycle([alertState EXCEPT !.running = TRUE, !.runs = @ + 1, !.lastError = TRUE],
              [ForgetSend(alertHist) EXCEPT !.queryThrew = TRUE])
  /\ UNCHANGED <<alertNow, alertPolicy, alertOthers>>

\* The fetch of the current attempt is answered, or rejects.
Respond(status) ==
  /\ alertCycle.phase = "inflight"
  /\ LET rule == alertCycle.triggers[alertCycle.t]
         h == [alertHist EXCEPT !.statuses = Append(@, status)]
     IN
     IF status # NetworkError /\ responseOk(status)
       THEN RunFrom(alertCycle,
                    [alertState EXCEPT
                       !.lastTriggerAtByRule[rule] = toISOString(alertNow),
                       !.sent = @ + 1],
                    [h EXCEPT !.okAt[rule] = alertNow,
                              !.sent = NumberIsFinite(h.okAt[rule]),
                              !.gap = alertNow - h.okAt[rule],
                              !.cooldownMs = alertCycle.policy.cooldownMs],
                    alertCycle.t + 1)
     ELSE IF ~retryable(status)
             \/ alertCycle.attempt >= alertCycle.policy.webhookRetryAttempts
       THEN EndCycle([alertState EXCEPT !.lastError = TRUE], GaveUp(alertCycle, h))
       ELSE /\ alertCycle' = [alertCycle EXCEPT !.phase = "wait"]
            /\ alertHist' = h
            /\ UNCHANGED alertState
  /\ UNCHANGED <<alertNow, alertPolicy, alertOthers>>

\* waitMs is over: the loop of sendAlertWebhook goes round.
BackoffDone ==
  /\ alertCycle.phase = "wait"
  /\ LET attempt == nextAttempt(alertCycle.attempt) IN
     IF attempt <= alertCycle.policy.webhookRetryAttempts
       THEN CallFetch([alertCycle EXCEPT !.attempt = attempt], alertState, alertHist)
       ELSE EndCycle([alertState EXCEPT !.lastError = TRUE],
                     GaveUp(alertCycle, alertHist))
  /\ UNCHANGED <<alertNow, alertPolicy, alertOthers>>

\* ------------------------------------------------------------------------
\* The manual webhook test
\* ------------------------------------------------------------------------
testOthers == <<indexVars, ingestVars, alertVars, alertConfig, query, maintenance,
                shutdown, api, intervals, audit>>

\* POST /api/alerts/test-webhook up to its first wait.  hasTarget: the
\* override of the body or the policy gives a URL; an enabled policy has one.
\* Without a URL testWebhook throws and the handler answers 400.
TestWebhook(hasTarget) ==
  /\ webhookTest.phase = "idle"
  /\ webhookTest.tests < MaxTests
  /\ alertPolicy.enabled => hasTarget
  /\ webhookTest' =
       IF hasTarget
         THEN [webhookTest EXCEPT !.phase = "inflight", !.policy = alertPolicy,
                                  !.attempt = 1, !.calls = 1, !.status = 0,
                                  !.tests = @ + 1]
         ELSE [webhookTest EXCEPT !.status = 400, !.calls = 0, !.tests = @ + 1]
  /\ UNCHANGED testOthers

\* A test whose delivery counts as the delivery of a rule.
TestRespondCounted(status) ==
  /\ webhookTest.phase = "inflight"
  /\ webhookTest' =
       IF status # NetworkError /\ responseOk(status)
         THEN [webhookTest EXCEPT !.phase = "idle", !.status = 200]
       ELSE IF \/ ~retryable(status)
               \/ webhookTest.attempt >= webhookTest.policy.webhookRetryAttempts
         THEN [webhookTest EXCEPT !.phase = "idle", !.status = 400]
       ELSE [webhookTest EXCEPT !.phase = "wait"]
  /\ alertState' = IF webhookTest'.status = 200
                     THEN [alertState EXCEPT
                             !.lastTriggerAtByRule["error_threshold"] = toISOString(alertNow),
                             !.sent = @ + 1]
                     ELSE alertState
  /\ UNCHANGED <<indexVars, ingestVars, alertNow, alertPolicy, alertCycle, alertHist,
                 alertConfig, query, maintenance, shutdown, api, intervals, audit>>

\* The test's sendAlertWebhook when its fetch is answered, or rejects: it
\* returns (200), gives up (400), or waits before its next attempt.
TestRespond(status) ==
  /\ webhookTest.phase = "inflight"
  /\ webhookTest' =
       IF status # NetworkError /\ responseOk(status)
         THEN [webhookTest EXCEPT !.phase = "idle", !.status = 200]
       ELSE IF \/ ~retryable(status)
               \/ webhookTest.attempt >= webhookTest.policy.webhookRetryAttempts
         THEN [webhookTest EXCEPT !.phase = "idle", !.status = 400]
       ELSE [webhookTest EXCEPT !.phase = "wait"]
  /\ UNCHANGED testOthers

\* waitMs of the test is over: the loop of sendAlertWebhook goes round.
TestBackoffDone ==
  /\ webhookTest.phase = "wait"
  /\ LET attempt == nextAttempt(webhookTest.attempt) IN
     webhookTest' =
       IF attempt <= webhookTest.policy.webhookRetryAttempts
         THEN [webhookTest EXCEPT !.phase = "inflight", !.attempt = attempt,
                                  !.calls = @ + 1]
         ELSE [webhookTest EXCEPT !.phase = "idle", !.status = 400]
  /\ UNCHANGED testOthers

\* ------------------------------------------------------------------------
\* The indexer over a tree that outside writers change
\* ------------------------------------------------------------------------
NextIndexer ==
  \/ \E f \in OutsideFiles, chunk \in Chunks : AppendChunk(f, chunk)
  \/ \E f \in OutsideFiles : TruncateFile(f)
  \/ \E f \in OutsideFiles : DeleteFile(f)
  \/ TickPass
  \/ FinishEmptyPass
  \/ StatFile
  \/ ReadFile
  \/ Restart

SpecIndexer == Init /\ [][NextIndexer]_vars

\* ------------------------------------------------------------------------
\* Full passes (indexDirectory, POST /api/reindex) over a tree that outside
\* writers change
\* ------------------------------------------------------------------------
NextFull ==
  \/ \E f \in OutsideFiles, chunk \in Chunks : AppendChunk(f, chunk)
  \/ \E f \in OutsideFiles : TruncateFile(f)
  \/ \E f \in OutsideFiles : DeleteFile(f)
  \/ \E kind \in {"index", "reindex"} : StartFull(kind)
  \/ FinishEmptyFull
  \/ FullReadFile

SpecFull == Init /\ [][NextFull]_vars

\* ------------------------------------------------------------------------
\* The ingest endpoint with the auto-ingest interval running, in either mode
\* ------------------------------------------------------------------------
InitEitherMode ==
  /\ InitIndexer
  /\ InitIngest
  /\ queueEnabled \in BOOLEAN
  /\ InitAlerts
  /\ InitService

NextIngest ==
  \/ \E r \in Requests, header \in Authorizations, payload \in Payloads :
       Receive(r, header, payload)
  \/ \E r \in Requests : SyncWrite(r)
  \/ \E r \in Requests : SyncWriteFail(r)
  \/ \E r \in Requests : SyncIndex(r)
  \/ TimerFires
  \/ DrainLoop
  \/ QueueWrite
  \/ QueueWriteFail
  \/ QueueIndex
  \/ TickPass
  \/ FinishEmptyPass
  \/ StatFile
  \/ ReadFile

SpecIngest == InitEitherMode /\ [][NextIngest]_vars

\* ------------------------------------------------------------------------
\* Queue mode with a server that keeps running: timers fire, awaited calls
\* return, the auto-ingest interval keeps firing, and appendFile fails at
\* most MaxFailures times.
\* ------------------------------------------------------------------------
InitQueueMode ==
  /\ InitIndexer
  /\ InitIngest
  /\ queueEnabled = TRUE
  /\ InitAlerts
  /\ InitService

NextQueue ==
  \/ \E r \in Requests, header \in Authorizations, payload \in Payloads :
       Receive(r, header, payload)
  \/ TimerFires
  \/ DrainLoop
  \/ QueueWrite
  \/ QueueWriteFail
  \/ QueueIndex
  \/ TickPass
  \/ FinishEmptyPass
  \/ StatFile
  \/ ReadFile

SpecQueue ==
  /\ InitQueueMode
  /\ [][NextQueue]_vars
  /\ WF_vars(TimerFires)
  /\ WF_vars(DrainLoop)
  /\ WF_vars(QueueWrite)
  /\ WF_vars(QueueIndex)
  /\ WF_vars(TickPass)
  /\ WF_vars(FinishEmptyPass)
  /\ WF_vars(StatFile)
  /\ WF_vars(ReadFile)

\* ------------------------------------------------------------------------
\* The alerting manager of one server process, with any persisted policy
\* ------------------------------------------------------------------------
InitAlert ==
  /\ InitIndexer
  /\ InitIngest
  /\ queueEnabled = FALSE
  /\ alertNow = 0
  /\ alertPolicy \in AlertPolicies
  /\ alertState = createAlertState
  /\ alertCycle = NoCycle
  /\ alertHist = NoAlertHist
  /\ InitService

NextAlert ==
  \/ AdvanceTime
  \/ \E update \in AlertPolicies : updatePolicy(update)
  \/ \E errorHigh \in BOOLEAN, noLogs \in BOOLEAN : StartCycle(errorHigh, noLogs)
  \/ \E status \in Statuses \cup {NetworkError} : Respond(status)
  \/ BackoffDone

SpecAlert == InitAlert /\ [][NextAlert]_vars

\* ------------------------------------------------------------------------
\* The alerting manager over a store whose queries may throw
\* ------------------------------------------------------------------------
NextCycle ==
  \/ AdvanceTime
  \/ \E update \in AlertPolicies : updatePolicy(update)
  \/ \E errorHigh \in BOOLEAN, noLogs \in BOOLEAN : StartCycle(errorHigh, noLogs)
  \/ StartCycleQueryThrows
  \/ \E status \in Statuses \cup {NetworkError} : Respond(status)
  \/ BackoffDone

SpecCycle == InitAlert /\ [][NextCycle]_vars

\* ------------------------------------------------------------------------
\* The alerting manager with stop()
\* ------------------------------------------------------------------------
\* AlertingManager.stop is called (by close): the interval is cleared.
StopAlerts ==
  /\ intervals.alerts
  /\ intervals' = stop(intervals)
  /\ alertHist' = ForgetSend(alertHist)
  /\ UNCHANGED <<alertNow, alertPolicy, alertState, alertCycle, indexVars, ingestVars,
                 timerOthers>>

NextStop ==
  \/ AdvanceTime
  \/ \E update \in AlertPolicies : updatePolicy(update)
  \/ \E errorHigh \in BOOLEAN, noLogs \in BOOLEAN : StartCycle(errorHigh, noLogs)
  \/ \E status \in Statuses \cup {NetworkError} : Respond(status)
  \/ BackoffDone
  \/ StopAlerts

SpecStop == InitAlert /\ [][NextStop]_vars

\* ------------------------------------------------------------------------
\* The alert policy across PUT /api/alerts/config and restarts
\* ------------------------------------------------------------------------
\* History: the body asks for enabled = true and leaves the policy without a
\* webhook URL.
EnablesWithoutUrl(current, body) ==
  /\ "enabled" \in body.has
  /\ body.enabled
  /\ IF "webhookUrl" \in body.has
       THEN body.webhookUrl = Null \/ Trim[body.webhookUrl] = ""
       ELSE current.webhookUrl = NoUrl

configOthers == <<indexVars, ingestVars, alertNow, alertState, alertCycle, alertHist,
                  query, maintenance, shutdown, api, audit, webhookTest>>

\* PUT /api/alerts/config: 400 and no change where parsing or applying
\* throws; otherwise updatePolicy sets the policy, persists it and
\* reschedules.  written: writeFileSync of persistAlertPolicy succeeds; where
\* it throws, updatePolicy has already set the policy, and the handler
\* answers 400.
PutAlertConfig(body, written) ==
  /\ alertConfig.up
  /\ LET parsed == parseAlertPolicyUpdate(body, FALSE)
         applied == applyAlertPolicyUpdate(alertPolicy, parsed.update)
         asked == EnablesWithoutUrl(alertPolicy, body)
     IN IF parsed.ok /\ applied.ok
          THEN IF written
                 THEN /\ alertPolicy' = applied.policy
                      /\ alertConfig' = [alertConfig EXCEPT
                           !.file = [exists |-> TRUE, doc |-> StringifyPolicy(applied.policy)],
                           !.restarted = FALSE, !.status = 200,
                           !.enablesWithoutUrl = asked,
                           !.served = [put |-> TRUE, raw |-> applied.policy,
                                       masked |-> getMaskedPolicy(applied.policy)]]
                      /\ intervals' = reschedule(intervals, applied.policy)
                 ELSE /\ alertPolicy' = applied.policy
                      /\ alertConfig' = [alertConfig EXCEPT !.restarted = FALSE,
                                                            !.status = 400,
                                                            !.enablesWithoutUrl = asked]
                      /\ UNCHANGED intervals
          ELSE /\ alertConfig' = [alertConfig EXCEPT !.restarted = FALSE, !.status = 400,
                                                     !.enablesWithoutUrl = asked]
               /\ UNCHANGED <<alertPolicy, intervals>>
  /\ UNCHANGED configOthers

\* The server is started again with seed options: createAlertPolicy, then
\* loadAlertPolicy over the config file.
RestartWithSeed(options) ==
  /\ LET loaded == loadAlertPolicy(alertConfig.file, createAlertPolicyOf(options))
     IN /\ alertPolicy' = loaded.policy
        /\ alertConfig' = [alertConfig EXCEPT !.seed = options, !.up = loaded.ok,
                                              !.status = 0, !.restarted = TRUE,
                                              !.enablesWithoutUrl = FALSE]
        /\ intervals' = IF loaded.ok
                          THEN startIntervals(loaded.policy)
                          ELSE [maintenance |-> FALSE, ingest |-> FALSE, alerts |-> FALSE]
  /\ UNCHANGED configOthers

InitConfig ==
  /\ InitIndexer
  /\ InitIngest
  /\ queueEnabled = FALSE
  /\ alertNow = 0
  /\ alertConfig \in {[NoAlertConfig EXCEPT !.seed = options] : options \in SeedOptions}
  /\ alertPolicy = createAlertPolicyOf(alertConfig.seed)
  /\ alertState = createAlertState
  /\ alertCycle = NoCycle
  /\ alertHist = NoAlertHist
  /\ query = NoQuery
  /\ maintenance = NoMaintenance
  /\ shutdown = NoShutdown
  /\ api = NoApi
  /\ intervals = startIntervals(alertPolicy)
  /\ audit = NoAudit
  /\ webhookTest = NoWebhookTest

NextConfig ==
  \/ \E body \in Docs, written \in BOOLEAN : PutAlertConfig(body, written)
  \/ \E options \in SeedOptions : RestartWithSeed(options)

SpecConfig == InitConfig /\ [][NextConfig]_vars

\* ------------------------------------------------------------------------
\* GET /api/logs over an unchanged index
\* ------------------------------------------------------------------------
queryOthers == <<indexVars, ingestVars, alertVars, alertConfig, maintenance, shutdown, api,
                 intervals, audit, webhookTest>>

QueryOptions ==
  {[level |-> f.level, from |-> f.from, limit |-> l, cursor |-> c] :
     f \in QueryFilters, l \in LimitInputs, c \in CursorTexts}

\* The client's first call of queryLogsPage, with options of its choosing.
QueryLogs(options) ==
  /\ ~query.asked
  /\ LET page == queryLogsPage(query.index, options)
         fresh == options.cursor.kind = "undefined"
     IN query' = [query EXCEPT !.options = options, !.asked = TRUE, !.page = page,
                               !.walking = fresh,
                               !.walk = IF fresh THEN page.entries ELSE <<>>,
                               !.pages = IF fresh THEN 1 ELSE 0]
  /\ UNCHANGED queryOthers

\* The client repeats its query with the nextCursor it was given.
FollowCursor ==
  /\ query.asked
  /\ query.page.nextCursor.kind # "undefined"
  /\ LET options == [query.options EXCEPT !.cursor = query.page.nextCursor]
         page == queryLogsPage(query.index, options)
     IN query' = [query EXCEPT !.options = options, !.page = page,
                               !.walk = IF query.walking THEN @ \o page.entries ELSE @,
                               !.pages = IF query.walking THEN @ + 1 ELSE @]
  /\ UNCHANGED queryOthers

InitQuery ==
  /\ InitIndexer
  /\ InitIngest
  /\ queueEnabled = FALSE
  /\ InitAlerts
  /\ alertConfig = NoAlertConfig
  /\ maintenance = NoMaintenance
  /\ query \in {[NoQuery EXCEPT !.index = index] : index \in Indexes}
  /\ shutdown = NoShutdown
  /\ api = NoApi
  /\ intervals = startIntervals(alertPolicy)
  /\ audit = NoAudit
  /\ webhookTest = NoWebhookTest

NextQuery ==
  \/ \E options \in QueryOptions : QueryLogs(options)
  \/ FollowCursor

SpecQuery == InitQuery /\ [][NextQuery]_vars

\* ------------------------------------------------------------------------
\* File maintenance over the raw log files
\* ------------------------------------------------------------------------
maintenanceOthers == <<indexVars, ingestVars, alertVars, alertConfig, query, shutdown, api,
                       intervals, audit, webhookTest>>

\* The loop of cleanupOldLogFiles over the files of processed: an audit
\* file is copied where a backup directory is configured, and each file is
\* removed.
CleanUp(m, processed) ==
  [m EXCEPT
     !.backups = IF m.auditBackupDirectory
                   THEN copyToBackup(@, m.files, {p \in processed : isAuditLogFile(p)})
                   ELSE @,
     !.files = [p \in LogPaths |-> IF p \in processed THEN NoLogFile ELSE @[p]],
     !.ran = TRUE, !.before = m.files, !.at = m.now, !.failedCopy = {}]

\* runMaintenance: cleanupOldLogFiles removes the files it selects.
RunMaintenance ==
  /\ LET removed == cleanupOldLogFiles(maintenance.files, maintenance.now,
                                       maintenance.policy.logRetentionDays,
                                       maintenance.policy.logAuditRetentionDays)
     IN maintenance' = CleanUp(maintenance, removed)
  /\ UNCHANGED maintenanceOthers

\* runMaintenance where copyFileSync throws for the file at path: the files
\* listed before it (the order of readdirSync) have been dealt with, the
\* throw leaves cleanupOldLogFiles, and runMaintenance catches it.
RunMaintenanceCopyFails(path, listedBefore) ==
  /\ maintenance.auditBackupDirectory
  /\ LET removed == cleanupOldLogFiles(maintenance.files, maintenance.now,
                                       maintenance.policy.logRetentionDays,
                                       maintenance.policy.logAuditRetentionDays)
     IN /\ path \in removed
        /\ isAuditLogFile(path)
        /\ path \notin listedBefore
        /\ maintenance' = [CleanUp(maintenance, removed \cap listedBefore)
                             EXCEPT !.failedCopy = {path}]
  /\ UNCHANGED maintenanceOthers

ForgetRun(m) ==
  [m EXCEPT !.ran = FALSE, !.before = NoMaintenance.before, !.at = 0, !.failedCopy = {}]

\* Half a day passes.
HalfDayPasses ==
  /\ maintenance.ticks < MaxTicks
  /\ maintenance' = [ForgetRun(maintenance) EXCEPT !.now = @ + DAY_MS \div 2, !.ticks = @ + 1]
  /\ UNCHANGED maintenanceOthers

\* A writer appends to a raw log file, creating it where it is absent.
TouchLogFile(p) ==
  /\ maintenance.files[p].mtimeMs # maintenance.now \/ ~maintenance.files[p].exists
  /\ maintenance' = [ForgetRun(maintenance) EXCEPT
                       !.files[p] = [exists |-> TRUE, mtimeMs |-> maintenance.now]]
  /\ UNCHANGED maintenanceOthers

InitMaintenance ==
  /\ InitIndexer
  /\ InitIngest
  /\ queueEnabled = FALSE
  /\ InitAlerts
  /\ alertConfig = NoAlertConfig
  /\ query = NoQuery
  /\ \E options \in RetentionOptions :
       \E files \in [LogPaths -> {NoLogFile} \cup [exists : {TRUE}, mtimeMs : MTimes]] :
         maintenance = [NoMaintenance EXCEPT !.policy = createMaintenancePolicy(options),
                                                !.files = files]
  /\ shutdown = NoShutdown
  /\ api = NoApi
  /\ intervals = startIntervals(alertPolicy)
  /\ audit = NoAudit
  /\ webhookTest = NoWebhookTest

NextMaintenance ==
  \/ RunMaintenance
  \/ HalfDayPasses
  \/ \E p \in LogPaths : TouchLogFile(p)

SpecMaintenance == InitMaintenance /\ [][NextMaintenance]_vars

\* ------------------------------------------------------------------------
\* File maintenance with an audit backup directory
\* ------------------------------------------------------------------------
\* The mtimes of the files found at the start: long expired, or fresh.
BackupMTimes == {0, Start}

InitBackup ==
  /\ InitIndexer
  /\ InitIngest
  /\ queueEnabled = FALSE
  /\ InitAlerts
  /\ alertConfig = NoAlertConfig
  /\ query = NoQuery
  /\ \E options \in RetentionOptions, configured \in BOOLEAN :
       \E files \in [LogPaths -> {NoLogFile} \cup [exists : {TRUE}, mtimeMs : BackupMTimes]] :
         maintenance = [NoMaintenance EXCEPT !.policy = createMaintenancePolicy(options),
                                                !.auditBackupDirectory = configured,
                                                !.files = files]
  /\ shutdown = NoShutdown
  /\ api = NoApi
  /\ intervals = startIntervals(alertPolicy)
  /\ audit = NoAudit
  /\ webhookTest = NoWebhookTest

NextBackup ==
  \/ RunMaintenance
  \/ \E path \in LogPaths, listedBefore \in SUBSET LogPaths :
       RunMaintenanceCopyFails(path, listedBefore)
  \/ HalfDayPasses
  \/ \E p \in LogPaths : TouchLogFile(p)

SpecBackup == InitBackup /\ [][NextBackup]_vars

\* ------------------------------------------------------------------------
\* Queue mode with a server that is closed
\* ------------------------------------------------------------------------
closeOthers == <<alertVars, alertConfig, query, maintenance, api, audit, webhookTest>>

\* Requests are accepted until close is called.
ReceiveWhileUp(r, header, payload) ==
  /\ shutdown.phase = "up"
  /\ Receive(r, header, payload)

\* The auto-ingest interval fires until close clears it.
TickWhileUp ==
  /\ intervals.ingest
  /\ TickPass

\* close() up to its first wait: the intervals are cleared, alerts stop,
\* and server.close is awaited.
CloseBegin ==
  /\ shutdown.phase = "up"
  /\ shutdown' = [shutdown EXCEPT !.phase = "closing", !.calls = @ + 1]
  /\ intervals' = stop([intervals EXCEPT !.maintenance = FALSE, !.ingest = FALSE])
  /\ UNCHANGED <<indexVars, ingestVars, closeOthers>>

\* server.close has called back: the flush timer is cleared and
\* drainIngestQueue is called.  Where a drain is in flight the call returns
\* at once, and db.close() and the return of close follow; otherwise the
\* call becomes the drain and close awaits it.
CloseDrain ==
  /\ shutdown.phase = "closing"
  /\ \A r \in Requests : requests[r].phase \in {"none", "queued", "done"}
  /\ queue' = drainIngestQueue([queue EXCEPT !.timer = FALSE])
  /\ shutdown' = IF queue.draining
                   THEN dbClose([shutdown EXCEPT !.phase = "closed"])
                   ELSE [shutdown EXCEPT !.phase = "draining"]
  /\ UNCHANGED <<indexVars, requests, failures, queueEnabled, closeOthers, intervals>>

\* The drain close awaited has returned: db.close(), and close returns.
CloseReturns ==
  /\ shutdown.phase = "draining"
  /\ ~queue.draining
  /\ shutdown' = dbClose([shutdown EXCEPT !.phase = "closed"])
  /\ UNCHANGED <<indexVars, ingestVars, closeOthers, intervals>>

InitClose ==
  /\ InitIndexer
  /\ InitIngest
  /\ queueEnabled = TRUE
  /\ InitAlerts
  /\ InitService

\* The steps of the server until close has returned (the signal handler
\* then exits the process).
Open == shutdown.phase # "closed"

NextClose ==
  \/ \E r \in Requests, header \in Authorizations, payload \in Payloads :
       ReceiveWhileUp(r, header, payload)
  \/ Open /\ TimerFires
  \/ Open /\ DrainLoop
  \/ Open /\ QueueWrite
  \/ Open /\ QueueWriteFail
  \/ Open /\ QueueIndex
  \/ TickWhileUp
  \/ Open /\ FinishEmptyPass
  \/ Open /\ StatFile
  \/ Open /\ ReadFile
  \/ CloseBegin
  \/ CloseDrain
  \/ CloseReturns

SpecClose == InitClose /\ [][NextClose]_vars

\* ------------------------------------------------------------------------
\* close() called again, and signals
\* ------------------------------------------------------------------------
\* The calls of close and the signals the model lets happen.
MaxCloses == 2

MaxSignals == 2

\* close is called once more after it has returned.  After a close that the
\* signal handler made the process has exited.
CloseAgain ==
  /\ shutdown.phase = "closed"
  /\ ~shutdown.shuttingDown
  /\ shutdown.calls < MaxCloses
  /\ ~shutdown.threw
  /\ shutdown' = [shutdown EXCEPT !.phase = "closing", !.calls = @ + 1]
  /\ intervals' = stop([intervals EXCEPT !.maintenance = FALSE, !.ingest = FALSE])
  /\ UNCHANGED <<indexVars, ingestVars, closeOthers>>

\* SIGINT or SIGTERM: the handler returns at once when shuttingDown is set,
\* which it is while the close it started is under way, and calls close
\* otherwise, before close was called or after a call of close has returned.
Signal ==
  /\ shutdown.signals < MaxSignals
  /\ ~shutdown.threw
  /\ IF shutdown.shuttingDown
       THEN shutdown.phase \in {"closing", "draining"}
       ELSE shutdown.phase \in {"up", "closed"} /\ shutdown.calls < MaxCloses
  /\ IF shutdown.shuttingDown
       THEN /\ shutdown' = [shutdown EXCEPT !.signals = @ + 1]
            /\ UNCHANGED intervals
       ELSE /\ shutdown' = [shutdown EXCEPT !.signals = @ + 1, !.shuttingDown = TRUE,
                                            !.phase = "closing", !.calls = @ + 1]
            /\ intervals' = stop([intervals EXCEPT !.maintenance = FALSE,
                                                   !.ingest = FALSE])
  /\ UNCHANGED <<indexVars, ingestVars, closeOthers>>

\* The steps that use the store are followed while its connection is open.
StoreOpen == Open /\ shutdown.dbOpen

NextShutdown ==
  \/ \E r \in Requests, header \in Authorizations, payload \in Payloads :
       ReceiveWhileUp(r, header, payload)
  \/ Open /\ TimerFires
  \/ Open /\ DrainLoop
  \/ Open /\ QueueWrite
  \/ Open /\ QueueWriteFail
  \/ StoreOpen /\ QueueIndex
  \/ TickWhileUp
  \/ StoreOpen /\ FinishEmptyPass
  \/ StoreOpen /\ StatFile
  \/ StoreOpen /\ ReadFile
  \/ CloseBegin
  \/ CloseDrain
  \/ CloseReturns
  \/ CloseAgain
  \/ Signal

SpecShutdown == InitClose /\ [][NextShutdown]_vars

\* ------------------------------------------------------------------------
\* Requests to the API and their authorization
\* ------------------------------------------------------------------------
apiOthers == <<indexVars, ingestVars, alertVars, alertConfig, query, maintenance, shutdown,
               intervals, audit, webhookTest>>

ApiTokens == {Undefined, "", "t1"}

BasicAuthPolicies == {NoBasicAuth, basicAuth}

\* Authorization headers of API clients: none, a bearer scheme without
\* token, another user, and those of the ingest clients.
ApiAuthorizations ==
  Authorizations \cup
    { NoHeader,
      [scheme |-> "bearer", user |-> "", secret |-> ""],
      [scheme |-> "basic", user |-> "guest", secret |-> "pw"] }

Methods == {"GET", "POST", "PUT", "OPTIONS"}

\* A path is its segments: /api/logs is <<"api", "logs">>.
Paths ==
  { <<"health">>, <<"api", "logs">>, <<"api", "logs", "aggregate">>, <<"api", "reindex">>,
    <<"api", "alerts", "config">>, <<"api", "alerts", "test-webhook">>,
    <<"api", "ingest">>, <<"api", "nothing">> }

\* requestUrl.pathname.startsWith("/api/")
startsWithApi(path) == Len(path) >= 2 /\ path[1] = "api"

Routes ==
  { [method |-> "GET", path |-> <<"api", "alerts", "config">>],
    [method |-> "PUT", path |-> <<"api", "alerts", "config">>],
    [method |-> "POST", path |-> <<"api", "alerts", "test-webhook">>],
    [method |-> "POST", path |-> <<"api", "reindex">>],
    [method |-> "GET", path |-> <<"api", "logs">>],
    [method |-> "GET", path |-> <<"api", "logs", "aggregate">>] }

isApiAuthorizedUnguarded(header, apiToken, policy) ==
  LET hasBearerAuth == apiToken # Undefined /\ apiToken # ""
      hasBasicAuth == policy.enabled
  IN IF ~hasBearerAuth /\ ~hasBasicAuth THEN TRUE
     ELSE IF getAuthorizationToken(header) = apiToken THEN TRUE
     ELSE getAuthenticatedBasicUsername(header, policy) # Undefined

isApiAuthorized(header, apiToken, policy) ==
  LET hasBearerAuth == apiToken # Undefined /\ apiToken # ""
      hasBasicAuth == policy.enabled
  IN IF ~hasBearerAuth /\ ~hasBasicAuth THEN TRUE
     ELSE IF hasBearerAuth /\ getAuthorizationToken(header) = apiToken THEN TRUE
     ELSE getAuthenticatedBasicUsername(header, policy) # Undefined

\* The status handleRequest answers with, as far as authorization decides
\* it: 204 to a preflight, the ingest route's own checks, 401, and then the
\* route (200 stands for whatever the route answers) or 404.
handleRequest(request, apiToken, policy) ==
  IF request.method = "OPTIONS" /\ (request.path = <<"health">> \/ startsWithApi(request.path))
    THEN 204
  ELSE IF request.path = <<"health">> THEN 200
  ELSE IF request.path = <<"api", "ingest">> /\ request.method = "POST"
    THEN IF resolveIngestProducerId(request.authorization, policy, producerByToken) = Undefined
           THEN 401 ELSE 200
  ELSE IF startsWithApi(request.path) /\ ~isApiAuthorized(request.authorization, apiToken, policy)
    THEN 401
  ELSE IF [method |-> request.method, path |-> request.path] \in Routes THEN 200
  ELSE 404

HandleApiRequest(method, path, header) ==
  /\ LET request == [method |-> method, path |-> path, authorization |-> header]
     IN api' = [api EXCEPT !.asked = TRUE, !.request = request,
                           !.status = handleRequest(request, api.apiToken, api.basicAuth)]
  /\ UNCHANGED apiOthers

InitApi ==
  /\ InitIndexer
  /\ InitIngest
  /\ queueEnabled = FALSE
  /\ InitAlerts
  /\ alertConfig = NoAlertConfig
  /\ query = NoQuery
  /\ maintenance = NoMaintenance
  /\ shutdown = NoShutdown
  /\ api \in {[NoApi EXCEPT !.apiToken = t, !.basicAuth = b] :
                t \in ApiTokens, b \in BasicAuthPolicies}
  /\ intervals = startIntervals(alertPolicy)
  /\ audit = NoAudit
  /\ webhookTest = NoWebhookTest

NextApi ==
  \E method \in Methods, path \in Paths, header \in ApiAuthorizations :
    HandleApiRequest(method, path, header)

SpecApi == InitApi /\ [][NextApi]_vars

\* ------------------------------------------------------------------------
\* Incremental passes and POST /api/reindex in one server
\* ------------------------------------------------------------------------
\* POST /api/reindex up to its first wait: resetIncrementalState, db.reset,
\* and indexDirectory is entered.
Reindex == StartFull("reindex")

NextReindex ==
  \/ \E f \in OutsideFiles, chunk \in Chunks : AppendChunk(f, chunk)
  \/ TickPass
  \/ FinishEmptyPass
  \/ StatFile
  \/ ReadFile
  \/ Reindex
  \/ FinishEmptyFull
  \/ FullReadFile

SpecReindex == Init /\ [][NextReindex]_vars

\* ------------------------------------------------------------------------
\* Lines of every kind, and writers that leave a line unfinished
\* ------------------------------------------------------------------------
\* What the application may put into its file with one write call: whole
\* lines (an object, a bare scalar, null, text that is not JSON, a blank
\* line), and the pieces of a line whose newline comes with a later write.
LineChunks ==
  { <<LB, RB, LF>>, <<CH, LF>>, <<NUL, LF>>, <<CH, RB, LF>>, <<LF>>,
    <<LB, RB>>, <<LB>>, <<RB, LF>> }

NextLines ==
  \/ \E f \in OutsideFiles, chunk \in LineChunks : AppendChunk(f, chunk)
  \/ TickPass
  \/ FinishEmptyPass
  \/ StatFile
  \/ ReadFile

SpecLines == Init /\ [][NextLines]_vars

\* ------------------------------------------------------------------------
\* A tree of several files that writers append to and remove
\* ------------------------------------------------------------------------
\* What a writer of the tree appends with one write call.
TreeChunks == { <<LB, RB, LF>>, <<CH, RB, LF>> }

NextTree ==
  \/ \E f \in Files, chunk \in TreeChunks : AppendChunk(f, chunk)
  \/ \E f \in Files : DeleteFile(f)
  \/ TickPass
  \/ FinishEmptyPass
  \/ StatFile
  \/ ReadFile

SpecTree == Init /\ [][NextTree]_vars

\* ------------------------------------------------------------------------
\* Everything that writes to log_entries: incremental passes over a tree
\* that is appended to, truncated, rotated, a restart, and POST /api/reindex
\* ------------------------------------------------------------------------
NextEntries ==
  \/ \E f \in OutsideFiles, chunk \in Chunks : AppendChunk(f, chunk)
  \/ \E f \in OutsideFiles : TruncateFile(f)
  \/ \E f \in OutsideFiles : DeleteFile(f)
  \/ TickPass
  \/ FinishEmptyPass
  \/ StatFile
  \/ ReadFile
  \/ Restart
  \/ Reindex
  \/ FinishEmptyFull
  \/ FullReadFile

SpecEntries == Init /\ [][NextEntries]_vars

\* ------------------------------------------------------------------------
\* What the table should hold for a file
\* ------------------------------------------------------------------------
RowsOf(db, f) == {r \in db : r.source_file = f}

\* One row per line that parses, numbered by its position in the file.
ExpectedRows(f) ==
  IF ~fs[f].exists THEN {}
  ELSE LET lines == ReadLines(fs[f].data) IN
       {Row(f, n, lines[n]) : n \in {m \in 1..Len(lines) :
                                      ParseLine(lines[m]) \in {"object", "scalar"}}}

\* Positions of the lines of the tree, and those of a given kind.
TreeLines ==
  UNION {{<<f, n>> : n \in 1..Len(ReadLines(fs[f].data))} : f \in {g \in Files : fs[g].exists}}

TreeLinesOfKind(kinds) ==
  {pos \in TreeLines : ParseLine(ReadLines(fs[pos[1]].data)[pos[2]]) \in kinds}

\* C1: once an incremental pass has completed with no write since it began,
\* the rows of every source file that exists are exactly the parsed lines of
\* the file's current content: no row of earlier content, no line missing.
C1_RowsMatchContent ==
  synced => \A f \in Files : fs[f].exists => RowsOf(logEntries, f) = ExpectedRows(f)

\* C2: when an incremental pass reads a file whose size has strictly decreased,
\* or whose size is the same and whose mtime has changed, since the previous
\* read of that file, then after the read the rows of that source file are
\* exactly the lines of the new content, numbered from 1: every old row is gone.
C2_RewriteReplacesRows ==
  (last.op = "incremental" /\ last.pre2)
    => RowsOf(logEntries, last.file) = ExpectedRows(last.file)

C2_Witness ==
  /\ last.op = "incremental"
  /\ last.pre2
  /\ RowsOf(logEntries, last.file) # {}

\* C3: when every file an incremental pass reads has only had whole lines
\* appended since the previous pass read it, the pass scans exactly the
\* appended lines and inserts exactly the records among them, skipping none
\* as a duplicate; with nothing appended it scans zero lines and inserts zero
\* rows.
C3_AppendedLinesOnly ==
  (last.op = "incremental" /\ last.done /\ last.pre3)
    => /\ last.report.linesScanned = last.k3
       /\ last.report.recordsInserted = last.r3
       /\ last.report.recordsSkipped = 0

\* C4 as stated: a full pass over a tree unchanged since the previous full
\* pass leaves the table as it was, inserts nothing, and reports
\* recordsSkipped = totalLines - parseErrors.
C4_SecondFullPassAsStated ==
  (last.op = "full" /\ last.pre4)
    => /\ last.same
       /\ last.report.recordsInserted = 0
       /\ last.report.recordsSkipped
            = Cardinality(TreeLines) - last.report.parseErrors

\* C4, amended: a full pass over a tree unchanged since the previous full
\* pass leaves the table as it was, inserts nothing, and reports
\* recordsSkipped = linesScanned - blank lines - parseErrors, which is the
\* number of lines that parse.
C4_SecondFullPass ==
  (last.op = "full" /\ last.pre4)
    => /\ last.same
       /\ last.report.recordsInserted = 0
       /\ last.report.linesScanned = Cardinality(TreeLines)
       /\ last.report.recordsSkipped
            = last.report.linesScanned - Cardinality(TreeLinesOfKind({"blank"}))
                - last.report.parseErrors
       /\ last.report.recordsSkipped
            = Cardinality(TreeLinesOfKind({"object", "scalar"}))

C4_Witness ==
  /\ last.op = "full"
  /\ last.pre4
  /\ last.report.recordsSkipped > 0
  /\ last.report.parseErrors > 0
  /\ TreeLinesOfKind({"blank"}) # {}

\* ------------------------------------------------------------------------
\* What the ingest endpoint promises
\* ------------------------------------------------------------------------
\* The line of the producer's file where the k-th accepted record of request
\* r was appended, <<>> if there is no such line.
WrittenLine(r, k) ==
  LET req == requests[r] IN
  IF req.first = 0 \/ ~fs[req.file].exists THEN <<>>
  ELSE LET lines == ReadLines(fs[req.file].data) IN
       IF req.first + k - 1 <= Len(lines) THEN lines[req.first + k - 1] ELSE <<>>

\* Every accepted record of request r is in the producer's file.
RecordsAppended(r) ==
  /\ requests[r].first > 0
  /\ requests[r].file = ProducerFile[requests[r].producerId]
  /\ \A k \in 1..Len(requests[r].accepted) :
       WrittenLine(r, k) = Stringify(requests[r].accepted[k])

\* Every accepted record of request r has its row in the index.
RecordsIndexed(r) ==
  \A k \in 1..Len(requests[r].accepted) :
    Row(requests[r].file, requests[r].first + k - 1,
        Stringify(requests[r].accepted[k])) \in logEntries

\* C5: in synchronous mode, when a request that had records accepted is
\* answered 200, every accepted record has been appended to the producer's
\* file and has its row in the index.
C5_IndexedBeforeResponse ==
  \A r \in Requests :
    (last.reply = r /\ requests[r].response.status = 200)
      => RecordsAppended(r) /\ RecordsIndexed(r)

\* C6: in queue mode, every request answered 202 has each of its accepted
\* records eventually appended to its producer's file and eventually indexed.
C6_QueuedEventuallyIndexed ==
  \A r \in Requests :
    (requests[r].response.status = 202)
      ~> (RecordsAppended(r) /\ RecordsIndexed(r))

\* A request was answered 202 and a write of the drain has failed since.
C6_Witness ==
  \E r \in Requests :
    /\ requests[r].response.status = 202
    /\ failures > 0
    /\ RecordsAppended(r)
    /\ RecordsIndexed(r)

\* C7: the producerId of the response of an accepted request is the id
\* resolved from the request's credentials, each of its records is written to
\* that producer's file, and each record written carries that id, whatever
\* producerId the payload carried.
C7_ProducerIdIsResolved ==
  \A r \in Requests :
    LET req == requests[r]
        resolved == resolveIngestProducerId(req.authorization, basicAuth, producerByToken)
    IN /\ req.response.status \in {200, 202} => req.response.producerId = resolved
       /\ req.first > 0 =>
            /\ req.file = ProducerFile[resolved]
            /\ \A k \in 1..Len(req.accepted) : WrittenLine(r, k) = <<LB, resolved, RB>>

\* An accepted request whose payload carried another producer's id has been
\* answered and written.
C7_Witness ==
  \E r \in Requests :
    LET req == requests[r] IN
    /\ req.response.status \in {200, 202}
    /\ req.first > 0
    /\ \E k \in 1..Len(req.logs) :
         /\ req.logs[k].kind = "object"
         /\ req.logs[k].producerId \notin {"", req.response.producerId}

\* ------------------------------------------------------------------------
\* What the alerting manager promises
\* ------------------------------------------------------------------------
\* C8: when a delivery of a rule is answered successfully after an earlier
\* successful delivery of the same rule, the time between the two answers is
\* at least the cooldownMs of the policy the later cycle ran with.
C8_CooldownBetweenSends ==
  alertHist.sent => alertHist.gap >= alertHist.cooldownMs

\* Two successful deliveries of a rule exactly cooldownMs apart, the policy
\* having been updated since the cycle of the later one began.
C8_Witness ==
  /\ alertHist.sent
  /\ alertHist.gap = alertHist.cooldownMs
  /\ alertPolicy.cooldownMs # alertHist.cooldownMs

\* C9, as stated: a cycle calls the webhook target at most
\* webhookRetryAttempts times.
C9_CallsPerCycle ==
  alertCycle.calls <= alertCycle.policy.webhookRetryAttempts

\* C9, amended: a send calls the webhook target at most webhookRetryAttempts
\* times, and a cycle at most webhookRetryAttempts times for each rule that
\* triggered in it.
C9_CallsPerSend ==
  /\ alertHist.sendCalls <= alertHist.webhookRetryAttempts
  /\ alertCycle.calls <= Len(alertCycle.triggers) * alertCycle.policy.webhookRetryAttempts

\* Both rules triggered and each send has used every attempt allowed.
C9_Witness ==
  /\ alertCycle.policy.webhookRetryAttempts = MaxAttempts
  /\ Len(alertCycle.triggers) = 2
  /\ alertCycle.calls = 2 * MaxAttempts
  /\ alertHist.sendCalls = MaxAttempts

\* A status that is neither a success nor one the sender retries.
Terminal(status) ==
  /\ status # NetworkError
  /\ ~(status >= 200 /\ status <= 299)
  /\ status \notin {408, 429}
  /\ status < 500

\* C10: an answer with a terminal status is the last answer of its send and
\* no call of the target follows it in that send; when it answers the first
\* attempt, the send has made exactly one attempt.
C10_TerminalStatusEndsSend ==
  \A i \in 1..Len(alertHist.statuses) :
    Terminal(alertHist.statuses[i])
      => /\ i = Len(alertHist.statuses)
         /\ alertHist.sendCalls = i
         /\ alertCycle.phase = "idle"

\* The first attempt of a send that was allowed more was answered 400.
C10_Witness ==
  /\ alertHist.statuses = <<400>>
  /\ alertHist.webhookRetryAttempts > 1
  /\ alertHist.sendCalls = 1

\* ------------------------------------------------------------------------
\* What the alert config promises
\* ------------------------------------------------------------------------
\* C11: after a restart that follows a successful PUT /api/alerts/config,
\* the raw policy (GET /api/alerts/config) and the masked policy (/health)
\* are those the server served after that PUT.
C11_PolicySurvivesRestart ==
  (alertConfig.restarted /\ alertConfig.up /\ alertConfig.served.put)
    => /\ alertPolicy = alertConfig.served.raw
       /\ getMaskedPolicy(alertPolicy) = alertConfig.served.masked

\* ------------------------------------------------------------------------
\* Queries
\* ------------------------------------------------------------------------
Ordered(entries) ==
  \A i, j \in 1..Len(entries) : i < j => Before(entries[i], entries[j])

Matching == {e \in query.index : buildFilterSql(query.options, e)}

Remaining == Matching \ SeqToSet(query.walk)

\* C12: every page is ordered by (timestamp DESC, id DESC); the pages got by
\* following nextCursor from a query without cursor are, put end to end,
\* ordered too (so no entry is repeated), hold only entries of the filter,
\* leave out no entry that sorts before one they hold (none skipped), and
\* nextCursor is present exactly when entries of the filter remain.
C12_PagesDisjointAdjacent ==
  /\ Ordered(query.page.entries)
  /\ query.walking =>
       /\ Ordered(query.walk)
       /\ SeqToSet(query.walk) \subseteq Matching
       /\ \A e \in Remaining : \A i \in 1..Len(query.walk) : Before(query.walk[i], e)
       /\ (query.page.nextCursor.kind # "undefined") <=> (Remaining # {})

C12_Witness ==
  /\ query.walking
  /\ query.pages >= 2
  /\ query.page.nextCursor.kind = "undefined"
  /\ Len(query.walk) = MaxEntries
  /\ \E i, j \in 1..Len(query.walk) :
       i # j /\ query.walk[i].timestamp = query.walk[j].timestamp

\* The page of the same query without cursor.
FirstPage == queryLogsPage(query.index, [query.options EXCEPT !.cursor = NoCursorText])

\* A cursor that is present and is not the base64url of a JSON object with
\* a string timestamp and a finite positive id.
Malformed(cursor) ==
  \/ cursor.kind \in {"empty", "garbage"}
  \/ /\ cursor.kind = "object"
     /\ \/ cursor.timestamp.kind # "string"
        \/ cursor.id.kind # "number"
        \/ cursor.id.h <= 0

WellFormed(cursor) == cursor.kind = "object" /\ ~Malformed(cursor)

\* A well-formed cursor that no entry of the index would have been given.
Unknown(cursor) ==
  /\ WellFormed(cursor)
  /\ \A e \in query.index : encodeCursor(e) # cursor

\* C13 as stated: a query with a malformed or unknown cursor returns the
\* page of the same query without cursor.
C13_MalformedOrUnknownIsFirstPage ==
  (query.asked /\ (Malformed(query.options.cursor) \/ Unknown(query.options.cursor)))
    => query.page = FirstPage

\* C13: a query with a malformed cursor returns the page of the same query
\* without cursor; a well-formed cursor is a position, whether or not an
\* entry has that id and timestamp: every returned entry sorts after it.
C13_MalformedIsFirstPage ==
  /\ (query.asked /\ Malformed(query.options.cursor)) => query.page = FirstPage
  /\ (query.asked /\ WellFormed(query.options.cursor)) =>
       \A i \in 1..Len(query.page.entries) :
         Before([id |-> Trunc(query.options.cursor.id.h),
                 timestamp |-> query.options.cursor.timestamp.s],
                query.page.entries[i])

C13_Witness ==
  /\ query.asked
  /\ query.options.cursor.kind = "object"
  /\ Malformed(query.options.cursor)
  /\ query.page.hasMore
  /\ Len(query.page.entries) = 2

\* C17: whatever limit is requested, the limit the service passes on and the
\* limit of the page lie in [1, 1000], the page holds no more entries than
\* its limit, and a requested limit above 1000 gives a page with limit 1000.
C17_LimitClamped ==
  query.asked =>
    /\ query.page.passed \in 1..1000
    /\ query.page.limit \in 1..1000
    /\ Len(query.page.entries) <= query.page.limit
    /\ (query.options.limit.kind = "number" /\ query.options.limit.h > Half(1000))
         => query.page.limit = 1000

C17_Witness ==
  /\ query.asked
  /\ query.options.limit.kind = "number"
  /\ query.options.limit.h > Half(1000)
  /\ query.page.limit = 1000
  /\ Len(query.page.entries) = MaxEntries

\* ------------------------------------------------------------------------
\* File maintenance
\* ------------------------------------------------------------------------
ClassRetentionDays(p) ==
  IF isAuditLogFile(p) THEN maintenance.policy.logAuditRetentionDays
  ELSE maintenance.policy.logRetentionDays

RemovedByRun(p) == maintenance.before[p].exists /\ ~maintenance.files[p].exists

\* C14: a maintenance run removes a raw log file only if the retention of
\* its class is greater than 0 and its mtime precedes the horizon of that
\* class; with logRetentionDays = 1 and logAuditRetentionDays = 365 it
\* removes the normal files older than a day and leaves every audit file
\* older than a day and younger than 365 days as it was.
C14_RetentionByClass ==
  maintenance.ran =>
    /\ \A p \in LogPaths :
         RemovedByRun(p) =>
           /\ ClassRetentionDays(p) > 0
           /\ maintenance.before[p].mtimeMs < maintenance.at - ClassRetentionDays(p) * DAY_MS
    /\ (maintenance.policy.logRetentionDays = 1 /\ maintenance.policy.logAuditRetentionDays = 365) =>
         \A p \in LogPaths :
           /\ ( /\ ~isAuditLogFile(p)
                /\ maintenance.before[p].exists
                /\ maintenance.before[p].mtimeMs < maintenance.at - DAY_MS )
                => ~maintenance.files[p].exists
           /\ ( /\ isAuditLogFile(p)
                /\ maintenance.before[p].exists
                /\ maintenance.before[p].mtimeMs < maintenance.at - DAY_MS
                /\ maintenance.before[p].mtimeMs > maintenance.at - 365 * DAY_MS )
                => maintenance.files[p] = maintenance.before[p]

C14_Witness ==
  /\ maintenance.ran
  /\ maintenance.policy.logRetentionDays = 1
  /\ maintenance.policy.logAuditRetentionDays = 365
  /\ \E p \in LogPaths : ~isAuditLogFile(p) /\ RemovedByRun(p)
  /\ \E p \in LogPaths :
       /\ isAuditLogFile(p)
       /\ Len(p) = 2
       /\ maintenance.files[p].exists
       /\ maintenance.files[p].mtimeMs < maintenance.at - DAY_MS
  /\ \E p \in LogPaths : isAuditLogFile(p) /\ RemovedByRun(p)

\* ------------------------------------------------------------------------
\* close()
\* ------------------------------------------------------------------------
\* C15: when close has closed the store and returned, every record the
\* ingest queue held, pending or in a flush in progress, is in its
\* producer's file.
C15_DrainedBeforeClosed ==
  shutdown.phase = "closed" =>
    \A r \in Requests : requests[r].response.status = 202 => RecordsAppended(r)

\* ------------------------------------------------------------------------
\* API authorization
\* ------------------------------------------------------------------------
TokenConfigured == api.apiToken # Undefined /\ api.apiToken # ""

CarriesCredentials ==
  \/ /\ TokenConfigured
     /\ api.request.authorization.scheme = "bearer"
     /\ api.request.authorization.secret = api.apiToken
  \/ /\ api.basicAuth.enabled
     /\ api.request.authorization.scheme = "basic"
     /\ api.request.authorization.user = api.basicAuth.username
     /\ api.request.authorization.secret = api.basicAuth.password

\* A request to a path under /api/ that is neither POST /api/ingest nor a
\* preflight (OPTIONS is answered 204 before any route).
ApiRouteRequest ==
  /\ api.asked
  /\ startsWithApi(api.request.path)
  /\ api.request.method # "OPTIONS"
  /\ ~(api.request.method = "POST" /\ api.request.path = <<"api", "ingest">>)

\* C16: a request to an /api/ route other than POST /api/ingest is answered
\* 401 exactly when an API token or basic credentials are configured and the
\* request carries neither the matching bearer token nor valid basic
\* credentials; with neither configured it is never answered 401.
C16_ApiAuthorization ==
  ApiRouteRequest =>
    ((api.status = 401) <=>
       ((TokenConfigured \/ api.basicAuth.enabled) /\ ~CarriesCredentials))

C16_Witness ==
  /\ ApiRouteRequest
  /\ api.status = 401
  /\ api.basicAuth.enabled
  /\ ~TokenConfigured
  /\ api.request.authorization.scheme = "none"
  /\ [method |-> api.request.method, path |-> api.request.path] \in Routes

\* ------------------------------------------------------------------------
\* One pass at a time
\* ------------------------------------------------------------------------
\* C18: no two indexing passes over the logs root are in progress at the
\* same time, whether entered by the auto-ingest tick, after an ingest, at
\* startup or by POST /api/reindex.
C18_OnePassAtATime == ~(inc.phase # "idle" /\ full.phase # "idle")

\* ------------------------------------------------------------------------
\* Lines that are not JSON objects
\* ------------------------------------------------------------------------
\* The step in which the incremental pass reads its current file.
ReadStep == inc.phase = "read" /\ inc'.phase # "read"

\* The lines the read of the current file hands to processLine.
LinesRead ==
  LET data == fs[inc.files[inc.i]].data IN
  ReadLines(SubSeq(data, inc.startOffset + 1, Len(data)))

NotAnObject(line) == ParseLine(line) \notin {"blank", "object"}

\* C19: every line that is not JSON or not a JSON object (a bare scalar,
\* null, broken text) adds one to parseErrors, creates no entry, and leaves
\* the other lines of the file to be indexed in the same pass.
C19_BadLinesCountedAndSkipped ==
  [][ReadStep =>
       LET f == inc.files[inc.i]
           lines == LinesRead
           bad == {n \in 1..Len(lines) : NotAnObject(lines[n])}
           report == IF inc'.phase = "idle" THEN last'.report ELSE inc'.report
       IN
       /\ ~ingest'.lastError
       /\ report.parseErrors = inc.report.parseErrors + Cardinality(bad)
       /\ \A r \in logEntries' \ logEntries : ParseLine(r.data_json) = "object"
       /\ \A n \in 1..Len(lines) :
            ParseLine(lines[n]) = "object" => HasRow(logEntries', f, inc.lineNumber + n)
  ]_vars

\* ------------------------------------------------------------------------
\* The cursor and a line that is not finished yet
\* ------------------------------------------------------------------------
\* The offset just after the last newline of the data: the end of the last
\* whole line.
EndOfLastWholeLine(data) ==
  LET ends == {0} \cup {j \in 1..Len(data) : data[j] = LF} IN
  CHOOSE e \in ends : \A j \in ends : j <= e

\* C20: after a successful incremental pass the cursor's byteOffset of the
\* file it read is the end of the last whole line; the bytes of a trailing
\* line whose newline had not been written yet are not counted as consumed.
C20_CursorAtEndOfLastWholeLine ==
  (last.op = "incremental" /\ last.done /\ last.file \in Files) =>
    incrementalState[last.file].byteOffset = EndOfLastWholeLine(fs[last.file].data)

\* ------------------------------------------------------------------------
\* A flush that fails
\* ------------------------------------------------------------------------
\* The step in which a write of the drain fails.
FlushFails == queue.phase = "write" /\ failures' = failures + 1

\* The items the drain took whose records no write of this flush has put
\* into a file: those merged into the item the failed write was for, or into
\* a later one.
Unflushed(q) ==
  SelectSeq(q.taken,
            LAMBDA item : \E j \in q.i..Len(q.merged) :
                            q.merged[j].producerId = item.producerId)

\* C21: when a step of a queue flush fails, exactly the items that were not
\* flushed go back to the front of the pending list in their order, the
\* error is recorded in the queue state, and a new flush is scheduled.
C21_UnflushedItemsPutBack ==
  [][FlushFails =>
       /\ queue'.pending = Unflushed(queue) \o queue.pending
       /\ queue'.lastError
       /\ queue'.timer
  ]_vars

\* ------------------------------------------------------------------------
\* A writer appending while a pass reads
\* ------------------------------------------------------------------------
\* The step in which the incremental pass stats its current file and decides
\* where to read from.
StatStep == inc.phase = "stat" /\ inc'.phase = "read"

\* C22: an incremental pass purges a file's rows only if the file was
\* truncated or rewritten.  Under SpecLines the file is only ever appended
\* to, before, between and during passes, so no pass purges its rows.
C22_AppendsNeverPurge ==
  [][StatStep =>
       LET f == inc.files[inc.i] IN
       ~shouldPurge(incrementalState, f,
                    [size |-> Len(fs[f].data), mtimeMs |-> fs[f].mtimeMs])
  ]_vars

\* ------------------------------------------------------------------------
\* Incremental passes against one full pass
\* ------------------------------------------------------------------------
\* The rows indexFileFull produces for the file as it is now: the file's
\* rows are deleted and every line is read from line 1.
FullPassRows(f) ==
  ScanLines([db |-> {}, report |-> createReport("full"), threw |-> FALSE],
            f, 0, ReadLines(fs[f].data)).db

\* C23: for a file that only grows by appends, the rows left by any series
\* of incremental passes (source_file, line_number and content of each
\* indexed line) are those a single full pass over the final file produces.
\* Under SpecLines files only grow by appends; the rows are compared once a
\* pass has completed with no write since it began.
C23_IncrementalEqualsFull ==
  synced => \A f \in Files : fs[f].exists => RowsOf(logEntries, f) = FullPassRows(f)

\* ------------------------------------------------------------------------
\* A file that cannot be read
\* ------------------------------------------------------------------------
\* The step in which the pass opens its current file and the file system
\* answers with an error: the file was removed after the pass's stat.
FileErrorStep ==
  inc.phase = "read" /\ ~fs[inc.files[inc.i]].exists /\ inc'.phase # "read"

\* C24: a file-system error on one file never stops a directory pass: the
\* pass goes on to its next file, and when the file was the last one the
\* pass ends with the error surfaced in lastError.
C24_FileErrorDoesNotStopPass ==
  [][FileErrorStep =>
       IF inc.i < Len(inc.files)
         THEN inc'.phase = "stat" /\ inc'.i = inc.i + 1
         ELSE ingest'.lastError /\ ~ingest'.running
  ]_vars

\* C25: close waits for the pass in flight: the store is never closed while
\* an indexing pass is in progress (runMaintenance runs to its end within
\* one step of the event loop, so no maintenance pass is ever in flight
\* when close runs).
C25_NoPassWhenClosed ==
  shutdown.phase = "closed" =>
    /\ inc.phase = "idle"
    /\ full.phase = "idle"
    /\ ~ingest.running

\* C26: once close has returned no timer is armed: the maintenance, the
\* auto-ingest and the alerting interval are cleared and no queue flush is
\* scheduled, whatever work was in flight while close ran.
C26_NoTimerAfterClose ==
  shutdown.phase = "closed" =>
    /\ ~intervals.maintenance
    /\ ~intervals.ingest
    /\ ~intervals.alerts
    /\ ~queue.timer

\* ------------------------------------------------------------------------
\* A policy update that fails
\* ------------------------------------------------------------------------
\* C27: a PUT /api/alerts/config that fails (it is answered 400), by a
\* validation error or because the policy file cannot be written, leaves
\* the policy in memory, the policy file and the alert timer as they were.
C27_FailedUpdateChangesNothing ==
  [][alertConfig'.status = 400 =>
       /\ alertPolicy' = alertPolicy
       /\ alertConfig'.file = alertConfig.file
       /\ intervals' = intervals
  ]_vars

\* ------------------------------------------------------------------------
\* Alerting switched off while a cycle is in flight
\* ------------------------------------------------------------------------
\* The step in which sendAlertWebhook calls fetch for a rule.
WebhookSent == alertCycle'.calls > alertCycle.calls

\* C28: once an update that disables alerting, or stop, has returned (the
\* interval is cleared and not set again), no rule webhook is sent any
\* more, not even by a cycle that was in flight.
C28_NoSendAfterDisableOrStop ==
  [][WebhookSent => intervals.alerts]_vars

\* ------------------------------------------------------------------------
\* The life of an entry
\* ------------------------------------------------------------------------
\* A step changes the content of an entry: the row of a (source_file,
\* line_number) is there before and after, with another content.
EntryMutated ==
  \E r \in logEntries, r2 \in logEntries' :
    /\ r.source_file = r2.source_file
    /\ r.line_number = r2.line_number
    /\ r # r2

EntryDeleted == ~(logEntries \subseteq logEntries')

\* POST /api/reindex resets the store.
ResetStep ==
  /\ full.phase = "idle"
  /\ full'.phase # "idle"
  /\ full'.kind = "reindex"
  /\ logEntries' = {}

\* An incremental pass finds that its cursor of a file no longer fits the
\* file (truncated or rewritten in place) and deletes the file's rows.
PurgeStep ==
  /\ StatStep
  /\ LET f == inc.files[inc.i] IN
     /\ shouldPurge(incrementalState, f,
                    [size |-> Len(fs[f].data), mtimeMs |-> fs[f].mtimeMs])
     /\ logEntries' = logEntries \ RowsOf(logEntries, f)

\* C29 as stated: an entry is never mutated, and the indexer's steps delete
\* entries only by a full reset (retention pruning is no step of the
\* indexer).
C29_DeletedOnlyByReset ==
  [][~EntryMutated /\ (EntryDeleted => ResetStep)]_vars

\* C29: an entry is never mutated, and the indexer's steps delete entries
\* only by a full reset or by the purge of a source file that an
\* incremental pass finds truncated or rewritten in place.
C29_DeletedOnlyByResetOrPurge ==
  [][~EntryMutated /\ (EntryDeleted => (ResetStep \/ PurgeStep))]_vars

\* A pass has just purged the rows of a file it holds a cursor of, while a
\* line of the file's earlier content had been indexed.
C29_Witness ==
  /\ inc.phase = "read"
  /\ LET f == inc.files[inc.i] IN
     /\ shouldPurge(incrementalState, f, inc.stats)
     /\ incrementalState[f].lineNumber > 0
     /\ RowsOf(logEntries, f) = {}
     /\ hist[f].seen

\* ------------------------------------------------------------------------
\* The is_audit flag of indexed records
\* ------------------------------------------------------------------------
auditOthers == <<indexVars, ingestVars, alertVars, alertConfig, query, maintenance,
                 shutdown, api, intervals, webhookTest>>

\* processLine on a record of the file at filePath whose audit field is value.
IndexRecord(filePath, value) ==
  /\ audit' = [asked |-> TRUE, path |-> filePath, field |-> value,
               is_audit |-> normalizeAudit(value, filePath)]
  /\ UNCHANGED auditOthers

NextAudit ==
  \E filePath \in IndexedPaths, value \in AuditFields : IndexRecord(filePath, value)

SpecAudit == Init /\ [][NextAudit]_vars

\* The record's audit field is a boolean or the text of one.
StatesBoolean(value) ==
  \/ value.kind = "boolean"
  \/ value.kind = "string" /\ value.s \in {"true", "false"}

StatedBoolean(value) ==
  IF value.kind = "boolean" THEN value.b ELSE value.s = "true"

\* C30: a record without an audit field is flagged is_audit exactly when its
\* file's path has a segment audit or its basename contains audit, without
\* regard to case, which is the class file maintenance gives the file; a
\* boolean or the text of a boolean in the record decides the flag instead.
C30_AuditFlagAgreesWithMaintenance ==
  audit.asked =>
    /\ audit.field.kind = "undefined" => audit.is_audit = isAuditLogFile(audit.path)
    /\ StatesBoolean(audit.field) => audit.is_audit = StatedBoolean(audit.field)

\* ------------------------------------------------------------------------
\* The ingest queue: one drain at a time, and its counters
\* ------------------------------------------------------------------------
\* A step in which the handler of POST /api/ingest enqueues an item.
Enqueued == queue'.recordsQueued > queue.recordsQueued

\* C31: at most one drain of the ingest queue is in progress at any moment,
\* also when the flush timer fires or close calls the drain while one is in
\* progress, and an enqueue that arrives during a drain only appends its item
\* to the pending list (and counts it): it neither starts a flush nor arms
\* the timer nor touches what the drain has taken.
C31_OneDrainAtATime ==
  [][/\ queue'.active = (IF queue'.draining THEN 1 ELSE 0)
     /\ (queue.draining /\ Enqueued) =>
          /\ Len(queue'.pending) = Len(queue.pending) + 1
          /\ SubSeq(queue'.pending, 1, Len(queue.pending)) = queue.pending
          /\ [queue' EXCEPT !.pending = queue.pending,
                            !.pendingRecords = queue.pendingRecords,
                            !.recordsQueued = queue.recordsQueued] = queue]_vars

\* close has called the drain while the timer's drain was in progress, and
\* an item enqueued during that drain is pending.
C31_Witness ==
  /\ shutdown.phase = "closed"
  /\ queue.draining
  /\ queue.active = 1
  /\ queue.taken # <<>>
  /\ queue.pending # <<>>

\* C38: whenever the pending list of the ingest queue is not empty, a drain
\* is in progress or the flush timer is armed.
C38_PendingHasAFlushScheduled ==
  queue.pending # <<>> => queue.draining \/ queue.timer

\* After a failed flush the items are pending again under an armed timer.
C38_Witness ==
  /\ queue.pending # <<>>
  /\ queue.lastError
  /\ ~queue.draining
  /\ queue.timer

\* C39: in queue mode, whenever no flush is in progress, recordsQueued equals
\* recordsFlushed plus pendingRecords, also after a flush failed and was
\* tried again.
C39_QueuedIsFlushedPlusPending ==
  (queueEnabled /\ ~queue.draining) =>
    queue.recordsQueued = queue.recordsFlushed + queue.pendingRecords

\* A flush failed, the next one succeeded, and nothing is pending.
C39_Witness ==
  /\ queueEnabled
  /\ ~queue.draining
  /\ failures = 1
  /\ ~queue.lastError
  /\ queue.recordsFlushed >= 2
  /\ queue.pendingRecords = 0

\* The records held by a list of queue items.
RECURSIVE RecordsHeld(_)
RecordsHeld(items) ==
  IF items = <<>> THEN 0 ELSE Len(items[1].records) + RecordsHeld(Tail(items))

\* C40: in every state the pendingRecords counter of the queue is the number
\* of records held in its pending list.
C40_PendingRecordsCountsPending ==
  queue.pendingRecords = RecordsHeld(queue.pending)

\* Items were put back after a failed flush and a later drain is in progress
\* with an item enqueued behind it.
C40_Witness ==
  /\ failures = 1
  /\ queue.draining
  /\ queue.taken # <<>>
  /\ queue.pendingRecords >= 2

\* ------------------------------------------------------------------------
\* Alerting cycles that fail
\* ------------------------------------------------------------------------
\* The answers of the latest send so far, and the one the step adds.
LastStatus(h) == h.statuses[Len(h.statuses)]

\* A step in which sendAlertWebhook gives up and its error ends the cycle.
WebhookGaveUp ==
  /\ alertCycle.phase # "idle"
  /\ alertCycle'.phase = "idle"
  /\ alertHist'.statuses # <<>>
  /\ LastStatus(alertHist') = NetworkError \/ ~responseOk(LastStatus(alertHist'))

\* A step in which a cycle is ended by a query that throws.
QueryThrew == alertState'.runs > alertState.runs /\ alertHist'.queryThrew

\* C32: a cycle that fails, by a query that throws or by a webhook that is
\* given up after its attempts, leaves lastError set and the running flag
\* released and does not clear the interval; and whenever a cycle has failed
\* and the interval is armed under an enabled policy, a tick of the timer
\* starts a new cycle.
C32_FailedCycleKeepsScheduler ==
  /\ [][(WebhookGaveUp \/ QueryThrew) =>
          /\ alertState'.lastError
          /\ ~alertState'.running
          /\ intervals' = intervals]_vars
  /\ []((/\ alertState.lastError
         /\ alertCycle.phase = "idle"
         /\ intervals.alerts
         /\ alertPolicy.enabled
         /\ alertState.runs < MaxRuns)
        => ENABLED StartCycle(TRUE, FALSE))

\* A cycle failed and a later tick's cycle is sending.
C32_Witness ==
  /\ alertState.lastError
  /\ alertState.runs = 2
  /\ alertState.running
  /\ alertCycle.phase = "inflight"

\* A step in which the fetch of a delivery is answered with a failure: a
\* rejection or a status outside 200..299.
AttemptFailed ==
  /\ alertCycle.phase = "inflight"
  /\ Len(alertHist'.statuses) = Len(alertHist.statuses) + 1
  /\ \/ LastStatus(alertHist') = NetworkError
     \/ LastStatus(alertHist') < 200
     \/ LastStatus(alertHist') > 299

\* The frame of a failed delivery.
FailureChangesNoTrigger ==
  AttemptFailed =>
    /\ alertState'.lastTriggerAtByRule = alertState.lastTriggerAtByRule
    /\ alertState'.sent = alertState.sent

C34_EnabledNeedsWebhookUrl ==
  /\ [](alertConfig.up => (alertPolicy.enabled => alertPolicy.webhookUrl # NoUrl))
  /\ [](alertConfig.enablesWithoutUrl => alertConfig.status = 400)
  /\ [][alertConfig'.enablesWithoutUrl =>
          /\ alertPolicy' = alertPolicy
          /\ alertConfig'.file = alertConfig.file
          /\ intervals' = intervals]_vars

\* After an update was persisted, an update asking for alerting without a
\* webhook URL has been refused.
C34_Witness ==
  /\ alertConfig.enablesWithoutUrl
  /\ alertConfig.status = 400
  /\ alertConfig.file.exists
  /\ ~alertPolicy.enabled
  /\ alertPolicy.webhookUrl = NoUrl

\* ------------------------------------------------------------------------
\* The audit backup of file maintenance
\* ------------------------------------------------------------------------
\* C35: with an audit backup directory configured, an audit file that a
\* maintenance run removes is, after the run, in the backup directory under
\* its path relative to the logs, as the run found it; and a file whose copy
\* failed is left as the run found it.
C35_AuditFileCopiedBeforeDeleted ==
  (maintenance.ran /\ maintenance.auditBackupDirectory) =>
    /\ \A p \in LogPaths :
         (RemovedByRun(p) /\ isAuditLogFile(p)) =>
           maintenance.backups[p] = maintenance.before[p]
    /\ \A p \in maintenance.failedCopy :
         maintenance.files[p] = maintenance.before[p] /\ maintenance.files[p].exists

\* A run backed one audit file up and removed it, and failed to copy another,
\* which it left.
C35_Witness ==
  /\ maintenance.ran
  /\ maintenance.auditBackupDirectory
  /\ maintenance.failedCopy # {}
  /\ \E p \in LogPaths :
       /\ RemovedByRun(p)
       /\ isAuditLogFile(p)
       /\ maintenance.backups[p].exists

\* ------------------------------------------------------------------------
\* Shutdown invoked twice
\* ------------------------------------------------------------------------
\* A step of a second invocation: a signal while shuttingDown is set, or a
\* step of close in its second call.
SecondInvocation ==
  \/ shutdown.shuttingDown /\ shutdown'.signals > shutdown.signals
  \/ shutdown'.calls = MaxCloses /\ shutdown' # shutdown

\* C36: invoking shutdown a second time, by a repeated signal or by a second
\* call of close, raises no error and changes neither the files, the index,
\* the pending items, the timers nor the store's connection.
C36_ShutdownIsIdempotent ==
  /\ [](~shutdown.threw)
  /\ [][SecondInvocation =>
          /\ fs' = fs
          /\ logEntries' = logEntries
          /\ queue'.pending = queue.pending
          /\ intervals' = intervals
          /\ shutdown'.dbOpen = shutdown.dbOpen]_vars

\* ------------------------------------------------------------------------
\* The alerting manager with manual webhook tests
\* ------------------------------------------------------------------------
NextTest ==
  \/ AdvanceTime
  \/ \E errorHigh \in BOOLEAN, noLogs \in BOOLEAN : StartCycle(errorHigh, noLogs)
  \/ \E status \in Statuses \cup {NetworkError} : Respond(status)
  \/ BackoffDone
  \/ \E hasTarget \in BOOLEAN : TestWebhook(hasTarget)
  \/ \E status \in Statuses \cup {NetworkError} : TestRespond(status)
  \/ TestBackoffDone

SpecTest == InitAlert /\ [][NextTest]_vars

\* A step of a manual webhook test.
TestStep == webhookTest' # webhookTest

\* Some rule is in cooldown now.
SomeRuleInCooldown ==
  \E rule \in Rules : inCooldown(alertState.lastTriggerAtByRule[rule], alertNow, alertPolicy)

\* C37: a manual webhook test changes no alert state (runs, sent, suppressed,
\* lastError, lastTriggerAtByRule, the running flag) and nothing of the cycle
\* in flight or the interval; with a target URL its fetch is made whatever
\* the cooldown of the rules; and while a test is in flight a tick of the
\* timer starts a cycle as it would without the test.
C37_TestWebhookChangesNoAlertState ==
  /\ [][TestStep =>
          /\ alertState' = alertState
          /\ alertCycle' = alertCycle
          /\ alertPolicy' = alertPolicy
          /\ intervals' = intervals
          /\ (webhookTest'.tests > webhookTest.tests /\ SomeRuleInCooldown) =>
               (webhookTest'.phase = "inflight" \/ ~alertPolicy.enabled)]_vars
  /\ []((/\ webhookTest.phase # "idle"
         /\ intervals.alerts
         /\ alertPolicy.enabled
         /\ ~alertState.running
         /\ alertState.runs < MaxRuns)
        => ENABLED StartCycle(TRUE, TRUE))

\* The fetch of a manual test is in flight while a rule that was delivered is
\* in cooldown.
C37_Witness ==
  /\ webhookTest.phase = "inflight"
  /\ alertState.sent >= 1
  /\ alertPolicy.enabled
  /\ SomeRuleInCooldown

====
